---------------------------- MODULE Spec2Model ----------------------------
(***************************************************************************)
(* A model of dunkinmomos/diffyapp: the BucketGame client component        *)
(* (src/src/client/game/BucketGame.tsx, wordLogic.ts) and the leaderboard  *)
(* server (src/unnamed/part_001).                                          *)
(*                                                                         *)
(* The client is a React component.  Each handler (timer callback, pointer *)
(* listener, click handler) is one action, taken together with the         *)
(* re-render it causes and the effects of that render: the state setters   *)
(* of one handler are applied as one batch, the completion effect runs     *)
(* when `buckets` or `wordSet` changed, and the pointer listeners are      *)
(* re-created from the values of the new render.  The two intervals and    *)
(* the mounted flag follow the effects' dependency lists and cleanups.     *)
(*                                                                         *)
(* Lengths are CSS pixels.  Pointer coordinates are taken relative to the  *)
(* top-left corner of the play area (bounds.left = bounds.top = 0).        *)
(***************************************************************************)
EXTENDS Integers, Sequences, FiniteSets, TLC

VARIABLES
    \* ---- BucketGame component state (BucketGame.tsx:67-80)
    wordSet,      \* the active WordSet
    letters,      \* the live FallingLetters, in spawn order
    buckets,      \* the bucket slots: a character or NULL
    score,
    status,
    gameSize,     \* [width, height]; gameSizeRef.current is the same value
    draggedId,    \* id of the letter being dragged, or NoId
    dragOffset,   \* [x, y]
    timers,       \* number of pending 900 ms completion timeouts
    nextId,       \* the next id getId() hands out
    lastUp,       \* the release point, when the last step was a pointer-up; else NoPoint
    mounted,      \* the component is mounted
    spawnInterval,   \* <<ws>> while a spawn interval is set, ws the word set
                     \* its callback closed over; <<>> when none is set
    gravityInterval, \* TRUE while the gravity interval is set
    cleared,      \* the intervals the last step cleared: a subset of {"spawn", "gravity"}
    listeners,    \* the handlers subscribed on window, by event type; a handler
                  \* is the record of the values its closure holds
    \* ---- App.tsx, the earlier variant of the game
    app,          \* its state: [targetWord, letters, buckets, score, status,
                  \* gameSize, draggedId, dragOffset, timeouts, nextId]
    \* ---- wordLogic.ts called on its own
    call,         \* the last call of a wordLogic function: [fn, args, result], or NoCall
    \* ---- the key and expiry resolver of the server, and its clock
    clock,        \* what new Date() returns: [day, ms]
    cal,          \* the calendar date of `clock`, kept by the calendar's own rules
    resolved,     \* the last result of the resolver: [period, key, expiry], or NoResult
    \* ---- the server and its store
    zsets,        \* the sorted sets of the store: key -> (member -> score)
    ttl,          \* the expiry last set on a key, in seconds
    count,        \* the value of the key 'count'
    reqs,         \* the requests, by slot
    lost          \* the <<key, member>> pairs where a zAdd lowered the stored score

gameVars == <<wordSet, letters, buckets, score, status, gameSize, draggedId,
              dragOffset, timers, nextId, lastUp, mounted, spawnInterval,
              gravityInterval, cleared, listeners>>

dateVars == <<clock, cal, resolved>>

serverVars == <<zsets, ttl, count, reqs, lost>>

vars == <<gameVars, dateVars, serverVars, call, app>>

-----------------------------------------------------------------------------
(* Helpers on sequences *)

Min(a, b) == IF a < b THEN a ELSE b
Max(a, b) == IF a > b THEN a ELSE b

Range(s) == {s[i] : i \in 1..Len(s)}

Map(s, F(_)) == [i \in 1..Len(s) |-> F(s[i])]

RECURSIVE Flatten(_)
Flatten(ss) == IF ss = <<>> THEN <<>> ELSE Head(ss) \o Flatten(Tail(ss))

-----------------------------------------------------------------------------
(* wordLogic.ts *)

NULL == "null"

ALPHABET ==
    <<"a","b","c","d","e","f","g","h","i","j","k","l","m",
      "n","o","p","q","r","s","t","u","v","w","x","y","z">>

\* A word is the sequence of its characters.
WORD_SETS == <<
    [label |-> "R* words",     words |-> << <<"r","a","t">>, <<"r","a","g">>, <<"r","a","m">> >>],
    [label |-> "C* words",     words |-> << <<"c","a","t">>, <<"c","a","p">>, <<"c","a","r">> >>],
    [label |-> "H* words",     words |-> << <<"h","a","t">>, <<"h","a","m">>, <<"h","a","s">> >>],
    [label |-> "M* words",     words |-> << <<"m","a","p">>, <<"m","a","n">>, <<"m","a","d">> >>],
    [label |-> "B* words",     words |-> << <<"b","e","d">>, <<"b","e","e">>, <<"b","e","g">> >>],
    [label |-> "P* words",     words |-> << <<"p","e","n">>, <<"p","e","t">>, <<"p","e","g">> >>],
    [label |-> "F* words",     words |-> << <<"f","o","x">>, <<"f","o","g">>, <<"f","o","r">> >>],
    [label |-> "J* words",     words |-> << <<"j","a","r">>, <<"j","a","m">>, <<"j","a","w">> >>],
    [label |-> "B* words (u)", words |-> << <<"b","u","g">>, <<"b","u","n">>, <<"b","u","t">> >> ] >>

\* r is Math.floor(Math.random() * WORD_SETS.length)
pickWordSet(r) == WORD_SETS[r + 1]

\* Outcomes of Math.random(), in thousandths.
RandomDraws == {0, 38, 39, 500, 961, 962, 999}

\* Math.floor(r * n) for r in thousandths.
FloorOfRandomTimes(r, n) == (r * n) \div 1000

\* The mutant: the array has one element more than asked for.
buildBlurredLetters_oneMore(length, draws) ==
    [i \in 1..(length + 1) |->
        IF i <= length
        THEN ALPHABET[FloorOfRandomTimes(draws[i], Len(ALPHABET)) + 1]
        ELSE ALPHABET[1]]

\* Array.from({ length }, () => ALPHABET[Math.floor(Math.random() * 26)]);
\* draws[i] is the outcome of the i-th call of Math.random().
buildBlurredLetters(length, draws) ==
    [i \in 1..length |->
        ALPHABET[FloorOfRandomTimes(draws[i], Len(ALPHABET)) + 1]]

\* The mutant: only the first word of the set is looked at.
getValidLettersByIndex_firstWordOnly(ws) ==
    [index \in 1..Len(ws.words[1]) |-> {ws.words[1][index]}]

\* For each index of the first word, the characters the words have there.
getValidLettersByIndex(ws) ==
    [index \in 1..Len(ws.words[1]) |->
        {ws.words[w][index] : w \in 1..Len(ws.words)}]

\* buckets.join(''): every filled slot is a one-character string.
JoinSlots(bs) == Flatten([i \in 1..Len(bs) |-> <<bs[i]>>])

\* The mutant: only the first word of the set counts.
isWordComplete_firstWordOnly(bs, ws) ==
    IF \E i \in 1..Len(bs) : bs[i] = NULL
    THEN FALSE
    ELSE ws.words[1] = JoinSlots(bs)

\* The mutant: every slot holds a character some word has at that index.
isWordComplete_indexwise(bs, ws) ==
    \A i \in 1..Len(bs) : \E w \in 1..Len(ws.words) : ws.words[w][i] = bs[i]

isWordComplete(bs, ws) ==
    IF \E i \in 1..Len(bs) : bs[i] = NULL
    THEN FALSE
    ELSE \E w \in 1..Len(ws.words) : ws.words[w] = JoinSlots(bs)

-----------------------------------------------------------------------------
(* BucketGame.tsx: constants, layout, random helpers *)

LETTER_SIZE == 48
BUCKET_BOTTOM == 24
BUCKET_HEIGHT == 112
hitPad == 14
BUCKET_GAP == 12        \* gap-3 of the bucket row
MAX_LETTERS == 14       \* slice(-14)
SCORE_REWARD == 10
NoId == 0               \* draggedId = null; getId() tokens are 1, 2, ...
NoPoint == [x |-> -1, y |-> -1]

\* Total number of letters the spawn process creates in a run.
MaxSpawns == 3

\* The same for the runs that fill the live-letter collection.
MaxCapSpawns == 16

\* Outcomes of Math.floor(Math.random() * WORD_SETS.length) explored.
WordSetDraws == {0, 1}

\* Outcomes of the two random draws of pickLetter explored: <<TRUE, k>> is
\* Math.random() < 0.72 with index k into the joined words, <<FALSE, k>> is
\* the other branch with k = Math.floor(Math.random() * 26).
LetterDraws == {<<TRUE, 0>>, <<TRUE, 1>>, <<TRUE, 2>>, <<FALSE, 6>>}

\* Speeds explored.  The code draws (1.2 + Math.random() * 1.8) px per tick;
\* the model lets a letter cross the play area in a few ticks.
CoarseSpeed == 400
Speeds == {CoarseSpeed}

\* Outcomes of Math.random() * (width - LETTER_SIZE) explored, in percent
\* of the range.
SpawnXPercents == {25}

\* Window sizes (innerWidth, innerHeight) explored by Spec.
Windows == {[w |-> 512, h |-> 672]}

\* Pointer positions explored for pointer-move and pointer-up.
MovePoints == {[x |-> 240, y |-> 200]}
UpPoints ==
    {[x |-> 60, y |-> 500],  [x |-> 164, y |-> 500], [x |-> 300, y |-> 500],
     [x |-> 400, y |-> 500], [x |-> 240, y |-> 200]}

\* Where inside the letter the pointer goes down (offset from its corner).
GrabOffsets == {[x |-> 24, y |-> 24]}

\* Math.round of a / b for b > 0.
Round(a, b) == (2 * a + b) \div (2 * b)

buildGameSize(win) ==
    LET outerPadding == 16
        maxHeight == Min(win.h - outerPadding * 2, 760)
        isWide == 10 * win.w > 11 * win.h
        maxWidth == Min(win.w - outerPadding * 2,
                        IF isWide THEN Round(maxHeight * 118, 100)
                                  ELSE Round(maxHeight * 86, 100))
    IN [width |-> Max(320, maxWidth), height |-> Max(520, maxHeight)]

pickLetter(targetSet, draw) ==
    LET joined == Flatten(targetSet.words)
    IN IF draw[1] THEN joined[draw[2] + 1] ELSE ALPHABET[draw[2] + 1]

\* getBoundingClientRect() of bucket i (1-based) in a play area of the
\* given size: a row 92% wide, centred, BUCKET_BOTTOM above the bottom edge,
\* the buckets of equal width with BUCKET_GAP between them.
BucketRect(i, n, size) ==
    LET rowWidth == (size.width * 92) \div 100
        rowLeft == (size.width - rowWidth) \div 2
        w == (rowWidth - (n - 1) * BUCKET_GAP) \div n
        left == rowLeft + (i - 1) * (w + BUCKET_GAP)
    IN [left |-> left, right |-> left + w,
        top |-> size.height - BUCKET_BOTTOM - BUCKET_HEIGHT,
        bottom |-> size.height - BUCKET_BOTTOM]

InPaddedRect(p, rect) ==
    /\ p.x >= rect.left - hitPad
    /\ p.x <= rect.right + hitPad
    /\ p.y >= rect.top - hitPad
    /\ p.y <= rect.bottom + hitPad

\* bucketRefs.current.findIndex(...): the first bucket whose padded
\* rectangle holds the point; 0 stands for -1 (indexes are 1-based here).
DropTargetIndex(p, n, size) ==
    IF \E i \in 1..n : InPaddedRect(p, BucketRect(i, n, size))
    THEN CHOOSE i \in 1..n :
            /\ InPaddedRect(p, BucketRect(i, n, size))
            /\ \A j \in 1..(i - 1) : ~InPaddedRect(p, BucketRect(j, n, size))
    ELSE 0

\* letters.find((letter) => letter.id === id): its index, 0 for undefined.
FindLetter(ls, id) ==
    IF \E i \in 1..Len(ls) : ls[i].id = id
    THEN CHOOSE i \in 1..Len(ls) :
            ls[i].id = id /\ \A j \in 1..(i - 1) : ls[j].id # id
    ELSE 0

-----------------------------------------------------------------------------
(* BucketGame.tsx: the state updates of the handlers *)

\* The mutant: the cap keeps the first MAX_LETTERS entries.
AppendCapped_keepsOldest(prev, next) ==
    LET all == Append(prev, next)
    IN IF Len(all) > MAX_LETTERS THEN SubSeq(all, 1, MAX_LETTERS) ELSE all

\* [...prev, next].slice(-14)
AppendCapped(prev, next) ==
    LET all == Append(prev, next)
    IN IF Len(all) > MAX_LETTERS
       THEN SubSeq(all, Len(all) - MAX_LETTERS + 1, Len(all))
       ELSE all

\* The mutant: the tick moves the dragged letter too.
Fall_movesDragged(prev, size) ==
    LET moved == Map(prev, LAMBDA letter : [letter EXCEPT !.y = letter.y + letter.speed])
    IN SelectSeq(moved, LAMBDA letter : letter.y < size.height + LETTER_SIZE)

\* The gravity tick's map and filter.
Fall(prev, size) ==
    LET moved == Map(prev, LAMBDA letter :
                    IF letter.isDragging THEN letter
                    ELSE [letter EXCEPT !.y = letter.y + letter.speed])
    IN SelectSeq(moved, LAMBDA letter : letter.y < size.height + LETTER_SIZE)

\* The mutant: a failed drop sends the letter back to the top.
ReturnToFalling_fromTop(prev, id) ==
    Map(prev, LAMBDA letter :
        IF letter.id = id
        THEN [letter EXCEPT !.isDragging = FALSE, !.y = -LETTER_SIZE]
        ELSE letter)

\* prev.map(letter => letter.id === draggedId ? {...letter, isDragging: false} : letter)
ReturnToFalling(prev, id) ==
    Map(prev, LAMBDA letter :
        IF letter.id = id THEN [letter EXCEPT !.isDragging = FALSE] ELSE letter)

\* prev.filter(letter => letter.id !== draggedId)
RemoveLetter(prev, id) == SelectSeq(prev, LAMBDA letter : letter.id # id)

\* prev.map((slot, slotIndex) => slotIndex === dropTargetIndex ? char : slot)
PlaceInBucket(prev, dropTargetIndex, char) ==
    [slotIndex \in 1..Len(prev) |->
        IF slotIndex = dropTargetIndex THEN char ELSE prev[slotIndex]]

\* The mutant: the drop is accepted whatever the character.
IsValidDrop_anyChar(ws, dropTargetIndex, char) == TRUE

\* validLettersByIndex[dropTargetIndex].has(draggedLetter.char)
IsValidDrop(ws, dropTargetIndex, char) ==
    char \in getValidLettersByIndex(ws)[dropTargetIndex]

\* The mutant: an occupied bucket accepts the drop too.
CanDropInto_occupied(bs, dropTargetIndex) == dropTargetIndex # 0

\* dropTargetIndex !== -1 && !buckets[dropTargetIndex]
CanDropInto(bs, dropTargetIndex) ==
    dropTargetIndex # 0 /\ bs[dropTargetIndex] = NULL

\* Array(nextSet.words[0].length).fill(null)
EmptyBuckets(ws) == [i \in 1..Len(ws.words[1]) |-> NULL]

Clamp(v, lo, hi) == Min(Max(v, lo), hi)

\* The mutant: a round that starts takes the score back to 0.
CompletionEffect_newRoundResetsScore(bs, ws, st, pending) ==
    IF isWordComplete(bs, ws)
    THEN /\ score' = score + SCORE_REWARD
         /\ status' = "Nice! Word completed."
         /\ timers' = pending + 1
    ELSE /\ status' = st
         /\ score' = IF bs = EmptyBuckets(ws) THEN 0 ELSE score
         /\ timers' = pending

\* The completion effect (deps [buckets, wordSet]) for the buckets and the
\* word set of the new render; st is the status the handler itself set and
\* pending the number of timeouts still pending after the handler.
CompletionEffect(bs, ws, st, pending) ==
    IF isWordComplete(bs, ws)
    THEN /\ score' = score + SCORE_REWARD
         /\ status' = "Nice! Word completed."
         /\ timers' = pending + 1
    ELSE /\ status' = st
         /\ score' = score
         /\ timers' = pending

\* The mutant: the spawn interval of the mount is never replaced.
SpawnEffect_neverRestarts(ws) ==
    /\ spawnInterval' = spawnInterval
    /\ cleared' = {}

\* The spawn effect (deps [wordSet, fallSpeedMultiplier]) for the word set
\* of the new render: when the word set is another object, the cleanup
\* clears the interval and the effect sets one whose callback closes over
\* the new set.  The gravity effect has deps [] and is not run again.
SpawnEffect(ws) ==
    IF ws # wordSet
    THEN /\ spawnInterval' = <<ws>>
         /\ cleared' = {"spawn"}
    ELSE /\ spawnInterval' = spawnInterval
         /\ cleared' = {}

\* startNewRound with the drawn word set, and the effect pass after it.
startNewRound(r, pending) ==
    LET nextSet == pickWordSet(r)
    IN /\ wordSet' = nextSet
       /\ buckets' = EmptyBuckets(nextSet)
       /\ letters' = <<>>
       /\ CompletionEffect(EmptyBuckets(nextSet), nextSet, "", pending)
       /\ SpawnEffect(nextSet)
       /\ UNCHANGED <<mounted, gravityInterval>>

\* A handler the pointer effect creates in a render: its closure holds the
\* values of that render.
Closure(id, offset, ls, bs, ws) ==
    [draggedId |-> id, dragOffset |-> offset, letters |-> ls, buckets |-> bs,
     validLettersByIndex |-> getValidLettersByIndex(ws)]

NoListeners == [pointermove |-> {}, pointerup |-> {}]

\* The handlers the effect of the current render subscribed.
OwnHandlers ==
    IF mounted /\ draggedId # NoId
    THEN {Closure(draggedId, dragOffset, letters, buckets, wordSet)}
    ELSE {}

\* The mutant: the effect has no cleanup.
PointerEffect_noCleanup(fired) ==
    LET afterEvent == IF fired THEN [listeners EXCEPT !.pointerup = {}] ELSE listeners
        depsChanged == <<buckets', dragOffset', draggedId', letters', wordSet'>>
                        # <<buckets, dragOffset, draggedId, letters, wordSet>>
        added == IF draggedId' # NoId
                 THEN {Closure(draggedId', dragOffset', letters', buckets', wordSet')}
                 ELSE {}
    IN listeners' =
        IF mounted' /\ depsChanged
        THEN [pointermove |-> afterEvent.pointermove \cup added,
              pointerup |-> afterEvent.pointerup \cup added]
        ELSE afterEvent

\* The pointer effect (deps [buckets, dragOffset.x, dragOffset.y, draggedId,
\* letters, validLettersByIndex]) after a handler: when a dependency
\* changed, or at the unmount, the cleanup removes the handlers the last run
\* subscribed; when a dependency changed and draggedId is set, the effect
\* subscribes a new pointermove and a new pointerup handler.  `fired` says
\* that the step delivered a pointerup, which removes the handlers
\* subscribed with { once: true }.
PointerEffect(fired) ==
    LET afterEvent == IF fired THEN [listeners EXCEPT !.pointerup = {}] ELSE listeners
        depsChanged == <<buckets', dragOffset', draggedId', letters', wordSet'>>
                        # <<buckets, dragOffset, draggedId, letters, wordSet>>
        cleaned == [pointermove |-> afterEvent.pointermove \ OwnHandlers,
                    pointerup |-> afterEvent.pointerup \ OwnHandlers]
        added == IF draggedId' # NoId
                 THEN {Closure(draggedId', dragOffset', letters', buckets', wordSet')}
                 ELSE {}
    IN listeners' =
        IF mounted /\ ~mounted' THEN cleaned
        ELSE IF mounted' /\ depsChanged
        THEN [pointermove |-> cleaned.pointermove \cup added,
              pointerup |-> cleaned.pointerup \cup added]
        ELSE afterEvent

-----------------------------------------------------------------------------
(* BucketGame.tsx: the handlers *)

GameInitOver(draws) ==
    /\ wordSet \in {pickWordSet(r) : r \in draws}
    /\ letters = <<>>
    /\ buckets = EmptyBuckets(wordSet)
    /\ score = 0
    /\ status = ""
    /\ gameSize \in {buildGameSize(win) : win \in Windows}
    /\ draggedId = NoId
    /\ dragOffset = [x |-> 0, y |-> 0]
    /\ timers = 0
    /\ nextId = 1
    /\ lastUp = NoPoint
    /\ mounted = TRUE
    /\ spawnInterval = <<wordSet>>
    /\ gravityInterval = TRUE
    /\ cleared = {}
    /\ listeners = NoListeners

GameInit == GameInitOver(WordSetDraws)

\* The component before any event, with the first word set drawn.
GameIdle == GameInit /\ wordSet = pickWordSet(0)

\* The spawn interval's callback.
Spawn(draw, pct, speed) ==
    /\ spawnInterval # <<>>
    /\ LET next == [id |-> nextId,
                     char |-> pickLetter(spawnInterval[1], draw),
                     x |-> ((gameSize.width - LETTER_SIZE) * pct) \div 100,
                     y |-> -LETTER_SIZE,
                     speed |-> speed,
                    isDragging |-> FALSE]
       IN letters' = AppendCapped(letters, next)
    /\ nextId' = nextId + 1
    /\ UNCHANGED <<wordSet, buckets, score, status, gameSize, draggedId,
                   dragOffset, timers, mounted, spawnInterval, gravityInterval>>
    /\ lastUp' = NoPoint
    /\ cleared' = {}
    /\ PointerEffect(FALSE)

\* The spawn interval's callback, for the letters of a bounded run.
SpawnTick(draw, pct, speed) ==
    /\ nextId <= MaxSpawns
    /\ Spawn(draw, pct, speed)

\* The gravity interval's callback.
GravityTick ==
    /\ gravityInterval
    /\ letters' = Fall(letters, gameSize)
    /\ UNCHANGED <<wordSet, buckets, score, status, gameSize, draggedId,
                   dragOffset, timers, nextId, mounted, spawnInterval,
                   gravityInterval>>
    /\ lastUp' = NoPoint
    /\ cleared' = {}
    /\ PointerEffect(FALSE)

\* The point lies inside the play area, which clips what it holds
\* (overflow-hidden): a pointer event reaches a letter only there.
InPlayArea(p, size) ==
    /\ p.x >= 0 /\ p.x < size.width
    /\ p.y >= 0 /\ p.y < size.height

\* onPointerDown of the element of live letter number i, grabbed at `grab`.
handlePointerDown(i, grab) ==
    /\ mounted
    /\ i \in 1..Len(letters)
    /\ InPlayArea([x |-> letters[i].x + grab.x, y |-> letters[i].y + grab.y], gameSize)
    /\ LET letter == letters[i]
       IN /\ draggedId' = letter.id
          /\ dragOffset' = [x |-> (letter.x + grab.x) - letter.x,
                            y |-> (letter.y + grab.y) - letter.y]
          /\ letters' = Map(letters, LAMBDA item :
                            IF item.id = letter.id
                            THEN [item EXCEPT !.isDragging = TRUE] ELSE item)
    /\ UNCHANGED <<wordSet, buckets, score, status, gameSize, timers, nextId,
                   mounted, spawnInterval, gravityInterval>>
    /\ lastUp' = NoPoint
    /\ cleared' = {}
    /\ PointerEffect(FALSE)

\* The window's pointermove listener, subscribed while draggedId is set.
handlePointerMove(p) ==
    /\ listeners.pointermove # {}
    /\ LET nextX == Min(Max(p.x - dragOffset.x, 0), gameSize.width - LETTER_SIZE)
           nextY == Min(Max(p.y - dragOffset.y, 0), gameSize.height - LETTER_SIZE)
       IN letters' = Map(letters, LAMBDA letter :
                        IF letter.id = draggedId
                        THEN [letter EXCEPT !.x = nextX, !.y = nextY]
                        ELSE letter)
    /\ UNCHANGED <<wordSet, buckets, score, status, gameSize, draggedId,
                   dragOffset, timers, nextId, mounted, spawnInterval,
                   gravityInterval>>
    /\ lastUp' = NoPoint
    /\ cleared' = {}
    /\ PointerEffect(FALSE)

\* The window's pointerup listener, subscribed while draggedId is set.
handlePointerUp(p) ==
    /\ listeners.pointerup # {}
    /\ lastUp' = p
    /\ draggedId' = NoId
    /\ LET dropTargetIndex == DropTargetIndex(p, Len(buckets), gameSize)
           found == FindLetter(letters, draggedId)
           isValidDrop == IF found # 0
                          THEN IsValidDrop(wordSet, dropTargetIndex, letters[found].char)
                          ELSE FALSE
       IN IF CanDropInto(buckets, dropTargetIndex)
          THEN IF found # 0 /\ isValidDrop
               THEN LET placed == PlaceInBucket(buckets, dropTargetIndex,
                                                letters[found].char)
                    IN /\ buckets' = placed
                       /\ letters' = RemoveLetter(letters, draggedId)
                       /\ CompletionEffect(placed, wordSet, status, timers)
               ELSE /\ letters' = ReturnToFalling(letters, draggedId)
                    /\ UNCHANGED <<buckets, score, status, timers>>
          ELSE /\ letters' = ReturnToFalling(letters, draggedId)
               /\ UNCHANGED <<buckets, score, status, timers>>
    /\ UNCHANGED <<wordSet, gameSize, dragOffset, nextId, mounted,
                   spawnInterval, gravityInterval>>
    /\ cleared' = {}
    /\ PointerEffect(TRUE)

\* The 900 ms timeout of a completion: startNewRound(); setStatus('').
\* Nothing clears the timeout; after the unmount its state updates are
\* dropped.
CompletionTimeout(r) ==
    /\ timers > 0
    /\ IF mounted
       THEN startNewRound(r, timers - 1)
       ELSE /\ timers' = timers - 1
            /\ cleared' = {}
            /\ UNCHANGED <<wordSet, letters, buckets, score, status, mounted,
                           spawnInterval, gravityInterval>>
    /\ UNCHANGED <<gameSize, draggedId, dragOffset, nextId>>
    /\ lastUp' = NoPoint
    /\ PointerEffect(FALSE)

\* The mutant: the reset does nothing once a slot is filled.
handleReset_onlyWhenEmpty(r) ==
    /\ mounted
    /\ buckets = EmptyBuckets(wordSet)
    /\ startNewRound(r, timers)
    /\ UNCHANGED <<gameSize, draggedId, dragOffset, nextId>>
    /\ lastUp' = NoPoint
    /\ PointerEffect(FALSE)

\* handleReset: startNewRound(); setStatus('').
handleReset(r) ==
    /\ mounted
    /\ startNewRound(r, timers)
    /\ UNCHANGED <<gameSize, draggedId, dragOffset, nextId>>
    /\ lastUp' = NoPoint
    /\ PointerEffect(FALSE)

\* x / prev * next of the resize, to the nearest whole pixel.
Rescale(v, prev, next) == Round(v * next, prev)

\* The mutant: the letters are rescaled against gameSizeRef.current, which
\* already holds the new size.
updateSize_scalesAgainstNewSize(win) ==
    LET next == buildGameSize(win)
    IN /\ mounted
       /\ gameSize' = next
       /\ letters' = Map(letters, LAMBDA letter :
                        [letter EXCEPT !.x = Rescale(letter.x, next.width, next.width),
                                       !.y = Rescale(letter.y, next.height, next.height)])
       /\ lastUp' = NoPoint
       /\ cleared' = {}
       /\ UNCHANGED <<wordSet, buckets, score, status, draggedId, dragOffset,
                      timers, nextId, mounted, spawnInterval, gravityInterval>>
       /\ PointerEffect(FALSE)

\* The window's resize listener.
updateSize(win) ==
    LET prev == gameSize
        next == buildGameSize(win)
    IN /\ mounted
       /\ gameSize' = next
       /\ letters' = Map(letters, LAMBDA letter :
                        [letter EXCEPT !.x = Rescale(letter.x, prev.width, next.width),
                                       !.y = Rescale(letter.y, prev.height, next.height)])
       /\ lastUp' = NoPoint
       /\ cleared' = {}
       /\ UNCHANGED <<wordSet, buckets, score, status, draggedId, dragOffset,
                      timers, nextId, mounted, spawnInterval, gravityInterval>>
       /\ PointerEffect(FALSE)

\* The unmount: the cleanups of the effects clear both intervals and remove
\* the resize and pointer listeners.  The state of the component is kept
\* here as it was at the unmount.
Unmount ==
    /\ mounted
    /\ mounted' = FALSE
    /\ spawnInterval' = <<>>
    /\ gravityInterval' = FALSE
    /\ cleared' = {"spawn", "gravity"}
    /\ lastUp' = NoPoint
    /\ UNCHANGED <<wordSet, letters, buckets, score, status, gameSize,
                   draggedId, dragOffset, timers, nextId>>
    /\ PointerEffect(FALSE)

GameNext ==
    \/ (\E draw \in LetterDraws, pct \in SpawnXPercents, speed \in Speeds :
            SpawnTick(draw, pct, speed)) /\ UNCHANGED <<dateVars, serverVars, call, app>>
    \/ GravityTick /\ UNCHANGED <<dateVars, serverVars, call, app>>
    \/ (\E i \in 1..MAX_LETTERS, grab \in GrabOffsets : handlePointerDown(i, grab))
            /\ UNCHANGED <<dateVars, serverVars, call, app>>
    \/ (\E p \in MovePoints : handlePointerMove(p)) /\ UNCHANGED <<dateVars, serverVars, call, app>>
    \/ (\E p \in UpPoints : handlePointerUp(p)) /\ UNCHANGED <<dateVars, serverVars, call, app>>
    \/ (\E r \in WordSetDraws : CompletionTimeout(r)) /\ UNCHANGED <<dateVars, serverVars, call, app>>
    \/ (\E r \in WordSetDraws : handleReset(r)) /\ UNCHANGED <<dateVars, serverVars, call, app>>
    \/ (\E win \in Windows : updateSize(win)) /\ UNCHANGED <<dateVars, serverVars, call, app>>

-----------------------------------------------------------------------------
(* part_001: dates.  A Date is [day, ms]: the days since 1970-01-01 (UTC)   *)
(* and the millisecond of that day.  The calendar functions follow the      *)
(* ECMAScript Date (proleptic Gregorian calendar, UTC).                     *)

MS_PER_DAY == 86400000

\* Days since 1970-01-01 of the civil date y-m-d (m in 1..12).
DaysFromCivil(y, m, d) ==
    LET yy == IF m <= 2 THEN y - 1 ELSE y
        era == yy \div 400
        yoe == yy - era * 400
        mp == IF m > 2 THEN m - 3 ELSE m + 9
        doy == (153 * mp + 2) \div 5 + d - 1
        doe == yoe * 365 + yoe \div 4 - yoe \div 100 + doy
    IN era * 146097 + doe - 719468

\* The civil date [y, m, d] of a day number, computed in steps: from the
\* day of the 400-year era to the year of the era, the day of the year
\* (counted from 1 March) and the month (March is 0).
CivilFromMp(y0, doy, mp) ==
    [y |-> y0 + (IF mp >= 10 THEN 1 ELSE 0),
     m |-> IF mp < 10 THEN mp + 3 ELSE mp - 9,
     d |-> doy - (153 * mp + 2) \div 5 + 1]

CivilFromDoy(y0, doy) == CivilFromMp(y0, doy, (5 * doy + 2) \div 153)

CivilFromYoe(era, doe, yoe) ==
    CivilFromDoy(yoe + era * 400, doe - (365 * yoe + yoe \div 4 - yoe \div 100))

CivilFromDoe(era, doe) ==
    CivilFromYoe(era, doe,
                 (doe - doe \div 1460 + doe \div 36524 - doe \div 146096) \div 365)

CivilFromDays(days) ==
    CivilFromDoe((days + 719468) \div 146097, (days + 719468) % 146097)

getUTCFullYear(date) == CivilFromDays(date.day).y
getUTCMonth(date) == CivilFromDays(date.day).m - 1      \* 0..11
getUTCDate(date) == CivilFromDays(date.day).d
getUTCDay(date) == (date.day + 4) % 7                   \* 0 = Sunday

\* new Date(Date.UTC(year, month, date)): month is 0-based and may be 12,
\* date may pass the end of the month; both carry over.
DateUTC(year, month, date) ==
    [day |-> DaysFromCivil(year + (month \div 12), (month % 12) + 1, 1) + (date - 1),
     ms |-> 0]

\* Math.floor((a.getTime() - b.getTime()) / 1000), without forming the
\* epoch milliseconds: MS_PER_DAY is a multiple of 1000.
FloorSecondsBetween(a, b) ==
    (a.day - b.day) * (MS_PER_DAY \div 1000) + (a.ms - b.ms) \div 1000

\* Math.ceil(a / b) for b > 0.
Ceil(a, b) == -((-a) \div b)

Digit(n) == <<"0","1","2","3","4","5","6","7","8","9">>[n + 1]

\* String(n) for n >= 0, as the sequence of its characters.
RECURSIVE NumberToString(_)
NumberToString(n) == IF n < 10 THEN <<Digit(n)>> ELSE Append(NumberToString(n \div 10), Digit(n % 10))

\* str.padStart(len, fill)
RECURSIVE padStart(_, _, _)
padStart(str, len, fill) ==
    IF Len(str) >= len THEN str ELSE padStart(<<fill>> \o str, len, fill)

\* date.toISOString().slice(0, 10) for years 0..9999
getLeaderboardDay(now) ==
    LET c == CivilFromDays(now.day)
    IN padStart(NumberToString(c.y), 4, "0") \o <<"-">> \o padStart(NumberToString(c.m), 2, "0")
       \o <<"-">> \o padStart(NumberToString(c.d), 2, "0")

\* The mutant: Sunday stays day 0, so it is counted with the week after.
IsoDay_sundayZero(date) == getUTCDay(date)

\* utcDate.getUTCDay() || 7
IsoDay(date) == IF getUTCDay(date) = 0 THEN 7 ELSE getUTCDay(date)

getIsoWeekKey(date) ==
    LET utcDate0 == DateUTC(getUTCFullYear(date), getUTCMonth(date), getUTCDate(date))
        day == IsoDay(utcDate0)
        \* utcDate.setUTCDate(utcDate.getUTCDate() + 4 - day)
        utcDate == DateUTC(getUTCFullYear(utcDate0), getUTCMonth(utcDate0),
                           getUTCDate(utcDate0) + 4 - day)
        yearStart == DateUTC(getUTCFullYear(utcDate), 0, 1)
        weekNumber == Ceil((utcDate.day - yearStart.day) + 1, 7)
    IN NumberToString(getUTCFullYear(utcDate)) \o <<"-", "W">>
       \o padStart(NumberToString(weekNumber), 2, "0")

\* A key is the literal part of the template followed by the characters of
\* the formatted part.
getLeaderboardKey(period, now) ==
    CASE period = "daily" -> <<"leaderboard:daily:">> \o getLeaderboardDay(now)
      [] period = "weekly" -> <<"leaderboard:weekly:">> \o getIsoWeekKey(now)
      [] period = "monthly" ->
            <<"leaderboard:monthly:">> \o NumberToString(getUTCFullYear(now)) \o <<"-">>
            \o padStart(NumberToString(getUTCMonth(now) + 1), 2, "0")
      [] period = "overall" -> <<"leaderboard:overall">>

\* The mutant: the week is taken to start a day early.
DaysUntilNextWeek_offByOne(utcDay) == 7 - utcDay

DaysUntilNextWeek(utcDay) == 8 - utcDay

\* null is NULL.
getSecondsUntilNextPeriod(period, now) ==
    IF period = "overall" THEN NULL
    ELSE IF period = "daily" THEN
        LET nextUtcMidnight ==
                DateUTC(getUTCFullYear(now), getUTCMonth(now), getUTCDate(now) + 1)
        IN Max(60, FloorSecondsBetween(nextUtcMidnight, now))
    ELSE IF period = "weekly" THEN
        LET utcDay == IsoDay(now)
            daysUntilNextWeek == DaysUntilNextWeek(utcDay)
            nextWeekStart ==
                DateUTC(getUTCFullYear(now), getUTCMonth(now),
                        getUTCDate(now) + daysUntilNextWeek)
        IN Max(60, FloorSecondsBetween(nextWeekStart, now))
    ELSE
        LET nextMonthStart == DateUTC(getUTCFullYear(now), getUTCMonth(now) + 1, 1)
        IN Max(60, FloorSecondsBetween(nextMonthStart, now))

-----------------------------------------------------------------------------
(* The clock of the resolver.  `cal` walks the Gregorian calendar day by    *)
(* day by its own rules (month lengths, leap years, weekdays, ISO weeks:    *)
(* a week runs Monday to Sunday and belongs to the year of its Thursday).   *)

PERIODS == <<"daily", "weekly", "monthly", "overall">>

NoResult == [period |-> "none", key |-> <<>>, expiry |-> NULL]

\* 2018-12-31, a Monday, the first day of ISO week 2019-W01: 48 years from
\* 1970 with 12 leap days, and 364 days.
StartDay == 48 * 365 + 12 + 364
StartCal == [y |-> 2018, m |-> 12, d |-> 31, wd |-> 1, isoY |-> 2019, isoW |-> 1]

\* Number of days the clock can advance from StartDay.
MaxDays == 2930

\* Times of day (ms) the clock is read at.
TimesOfDay == {0, 500, 36000000, 86340000, 86370000, 86399999}

IsLeapYear(y) == (y % 4 = 0 /\ y % 100 # 0) \/ y % 400 = 0

DaysInMonth(y, m) ==
    IF m = 2 THEN (IF IsLeapYear(y) THEN 29 ELSE 28)
    ELSE IF m \in {4, 6, 9, 11} THEN 30 ELSE 31

\* The calendar date of the next day.
NextCal(c) ==
    LET lastOfMonth == c.d = DaysInMonth(c.y, c.m)
        d1 == IF lastOfMonth THEN 1 ELSE c.d + 1
        m1 == IF lastOfMonth THEN (IF c.m = 12 THEN 1 ELSE c.m + 1) ELSE c.m
        y1 == IF lastOfMonth /\ c.m = 12 THEN c.y + 1 ELSE c.y
        wd1 == (c.wd % 7) + 1
        \* the year of the Thursday of a week that starts on y1-m1-d1
        thursdayYear == IF m1 = 12 /\ d1 + 3 > 31 THEN y1 + 1 ELSE y1
    IN [y |-> y1, m |-> m1, d |-> d1, wd |-> wd1,
        isoY |-> IF wd1 = 1 THEN thursdayYear ELSE c.isoY,
        isoW |-> IF wd1 = 1
                 THEN (IF thursdayYear # c.isoY THEN 1 ELSE c.isoW + 1)
                 ELSE c.isoW]

DateInit ==
    /\ clock = [day |-> StartDay, ms |-> 0]
    /\ cal = StartCal
    /\ resolved = NoResult

\* A day passes.
AdvanceDay ==
    /\ clock.day < StartDay + MaxDays
    /\ clock' = [clock EXCEPT !.day = clock.day + 1]
    /\ cal' = NextCal(cal)
    /\ resolved' = NoResult

\* The time of day changes.
SetTime(ms) ==
    /\ clock.ms # ms
    /\ clock' = [clock EXCEPT !.ms = ms]
    /\ resolved' = NoResult
    /\ UNCHANGED cal

\* getLeaderboardKey(period) and getSecondsUntilNextPeriod(period), both
\* reading the clock (new Date()).
Resolve(period) ==
    /\ resolved' = [period |-> period,
                    key |-> getLeaderboardKey(period, clock),
                    expiry |-> getSecondsUntilNextPeriod(period, clock)]
    /\ UNCHANGED <<clock, cal>>

DateNext ==
    \/ AdvanceDay /\ UNCHANGED <<gameVars, serverVars, call, app>>
    \/ (\E ms \in TimesOfDay : SetTime(ms)) /\ UNCHANGED <<gameVars, serverVars, call, app>>
    \/ (\E i \in 1..Len(PERIODS) : Resolve(PERIODS[i])) /\ UNCHANGED <<gameVars, serverVars, call, app>>

-----------------------------------------------------------------------------
(* part_001: the store (redis), the identity provider and the requests.     *)
(* A sorted set is a function from its members to their scores; a key that  *)
(* holds nothing is outside DOMAIN zsets.  The result of zScore is <<>> for *)
(* undefined and <<s>> for the score s.  The expiry of a key is recorded in *)
(* ttl; the store deleting a key when its expiry runs out is not part of    *)
(* the model.  The value of 'count' is a string: the sequence of its        *)
(* characters, <<>> when the key is not set.                                *)

LEADERBOARD_LIMIT == 10     \* limit: { offset: 0, count: 10 }

\* Number of requests the server receives in a run.
MaxReqs == 2

\* The members of the sorted sets in lexicographical order.
MEMBERS == <<"alice", "anonymous", "bob", "carol", "dave", "erin", "frank",
             "grace", "heidi", "ivan", "judy", "mallory">>

\* What reddit.getCurrentUsername() resolves to.
IdentityOutcomes == {"alice", NULL}

Num(n) == [t |-> "num", v |-> n]
NaN == [t |-> "nan", v |-> 0]
Missing == [t |-> "missing", v |-> 0]

\* Values of req.body.score explored (Missing: the field is absent).
BodyScores == {Missing, NaN, Num(-5), Num(0), Num(30), Num(50), Num(80)}

\* Values of req.body.period and req.query.period explored.
PeriodParams == {"missing", "weekly", "all"}

\* Number(req.body?.score ?? 0)
ToNumber(raw) == IF raw.t = "missing" THEN Num(0) ELSE raw

IsFinite(newScore) == newScore.t = "num"

\* The mutant: zero passes the validation.
IsInvalidScore_negativeOnly(newScore) == ~IsFinite(newScore) \/ newScore.v < 0

\* !Number.isFinite(score) || score <= 0
IsInvalidScore(newScore) == ~IsFinite(newScore) \/ newScore.v <= 0

\* redis.zScore(key, member)
zScore(zs, key, member) ==
    IF key \in DOMAIN zs /\ member \in DOMAIN zs[key]
    THEN <<zs[key][member]>> ELSE <<>>

\* redis.zAdd(key, { member, score })
zAdd(zs, key, member, newScore) ==
    LET old == IF key \in DOMAIN zs THEN zs[key] ELSE <<>>
    IN (key :> ((member :> newScore) @@ old)) @@ zs

Rank(member) == CHOOSE i \in 1..Len(MEMBERS) : MEMBERS[i] = member

\* The mutant: the range is read from the lowest score up.
RECURSIVE TopEntries_lowestFirst(_, _)
TopEntries_lowestFirst(set, n) ==
    IF n = 0 \/ DOMAIN set = {} THEN <<>>
    ELSE LET worst == CHOOSE m \in DOMAIN set : \A o \in DOMAIN set :
                        \/ set[m] < set[o]
                        \/ set[m] = set[o] /\ Rank(m) <= Rank(o)
         IN <<[username |-> worst, score |-> set[worst]]>>
            \o TopEntries_lowestFirst([o \in DOMAIN set \ {worst} |-> set[o]], n - 1)

\* The first n members of a sorted set from the highest score down; equal
\* scores in reverse lexicographical order of the members.
RECURSIVE TopEntries(_, _)
TopEntries(set, n) ==
    IF n = 0 \/ DOMAIN set = {} THEN <<>>
    ELSE LET best == CHOOSE m \in DOMAIN set : \A o \in DOMAIN set :
                        \/ set[m] > set[o]
                        \/ set[m] = set[o] /\ Rank(m) >= Rank(o)
         IN <<[username |-> best, score |-> set[best]]>>
            \o TopEntries([o \in DOMAIN set \ {best} |-> set[o]], n - 1)

\* redis.zRange(key, 0, '+inf', {by: 'score', reverse: true, limit}) and
\* the map of fetchLeaderboardEntries.
zRangeEntries(zs, key) ==
    IF key \in DOMAIN zs THEN TopEntries(zs[key], LEADERBOARD_LIMIT) ELSE <<>>

\* String(n) for any integer n.
IntToString(n) == IF n < 0 THEN <<"-">> \o NumberToString(-n) ELSE NumberToString(n)

DigitValue(ch) == CHOOSE d \in 0..9 : Digit(d) = ch

RECURSIVE ParseDigits(_, _)
ParseDigits(str, acc) ==
    IF str = <<>> THEN acc ELSE ParseDigits(Tail(str), acc * 10 + DigitValue(Head(str)))

\* parseInt(str) of the decimal string of an integer.
parseInt(str) ==
    IF Head(str) = "-" THEN -ParseDigits(Tail(str), 0) ELSE ParseDigits(str, 0)

\* redis.incrBy('count', delta): the new value, stored as a string.
incrBy(value, delta) == (IF value = <<>> THEN 0 ELSE parseInt(value)) + delta

\* The mutant: the submission is taken as written without a zAdd.
ShouldWrite_never(existingScore, newScore) == FALSE

\* The mutant: any score that differs from the stored one is written.
ShouldWrite_anyOther(existingScore, newScore) ==
    existingScore = <<>> \/ newScore # existingScore[1]

\* existingScore === undefined || score > existingScore
ShouldWrite(existingScore, newScore) ==
    existingScore = <<>> \/ newScore > existingScore[1]

-----------------------------------------------------------------------------
(* part_001: the handlers.  A handler runs from one await to the next as    *)
(* one step: the step in which an awaited call settles applies the call to  *)
(* the store and runs the handler on to its next call, which it issues.     *)
(* Every awaited call may reject.                                           *)

NoResponse ==
    [status |-> 0, type |-> "none", count |-> 0, username |-> "none",
     period |-> "none", day |-> <<>>, entries |-> <<>>]

\* res.status(400).json({status: 'error', message})
ErrorResponse == [NoResponse EXCEPT !.status = 400, !.type = "error"]

\* A slot no request has arrived in.
IdleReq ==
    [kind |-> "none", pc |-> "idle", rawScore |-> Missing, score |-> Num(0),
     periodParam |-> "none",
     delta |-> 0, username |-> "none", periods |-> <<>>, leaderboardKey |-> <<>>,
     expireSeconds |-> 0, response |-> NoResponse,
     \* bookkeeping: calls issued to the store or the identity provider, whether
     \* one of them rejected, the keys the update loop resolved, and the sorted
     \* sets as they were when the request arrived
     ops |-> 0, failed |-> FALSE, touched |-> <<>>, before |-> <<>>]

InFlight(r) == reqs[r].pc \notin {"idle", "done"}

\* Request slot r takes the next request; `sequential` makes the server take
\* a request only when no other is being handled.
CanReceive(r, sequential) ==
    /\ reqs[r].pc = "idle"
    /\ \A q \in 1..(r - 1) : reqs[q].pc # "idle"
    /\ sequential => \A q \in 1..MaxReqs : ~InFlight(q)

\* The catch blocks: res.status(400).json(...)
Catch(req) ==
    [req EXCEPT !.pc = "done", !.failed = TRUE, !.response = ErrorResponse]

\* A rejection no catch block meets: the handler's promise rejects and the
\* handler sends nothing; what the framework makes of it is `code` (0: the
\* request is left without a response).
Uncaught(req, code) ==
    [req EXCEPT !.pc = "done", !.failed = TRUE,
                !.response = [NoResponse EXCEPT !.status = code, !.type = "error"]]

UncaughtOutcomes == {0, 500}

\* fetchLeaderboardEntries(period) up to its await.
FetchEntries(req, period) ==
    [req EXCEPT !.pc = "zRange", !.ops = @ + 1,
                !.periods = <<period>>,
                !.leaderboardKey = getLeaderboardKey(period, clock)]

\* const responsePeriod = periodParam === 'all' ? 'daily' : periodParam
ResponsePeriod(periodParam) == IF periodParam = "all" THEN "daily" ELSE periodParam

\* The head of the update loop for the periods left, and the code after it.
LoopHead(req, periods) ==
    IF periods = <<>>
    THEN FetchEntries(req, ResponsePeriod(req.periodParam))
    ELSE LET leaderboardKey == getLeaderboardKey(Head(periods), clock)
         IN [req EXCEPT !.pc = "zScore", !.ops = @ + 1,
                        !.periods = periods,
                        !.leaderboardKey = leaderboardKey,
                        !.touched = Append(@, leaderboardKey)]

storeVars == <<zsets, ttl, count, lost>>

\* ---- GET /api/init
InitHandler(r, postId, sequential) ==
    /\ CanReceive(r, sequential)
    /\ reqs' = [reqs EXCEPT ![r] =
            IF ~postId
            THEN [IdleReq EXCEPT !.kind = "init", !.pc = "done", !.response = ErrorResponse]
            ELSE [IdleReq EXCEPT !.kind = "init", !.pc = "init", !.ops = 2]]
    /\ UNCHANGED storeVars

\* Promise.all([redis.get('count'), reddit.getCurrentUsername()]) settles.
InitSettled(r, ok, username) ==
    /\ reqs[r].pc = "init"
    /\ reqs' = [reqs EXCEPT ![r] =
            IF ~ok THEN Catch(@)
            ELSE [@ EXCEPT !.pc = "done",
                    !.response = [NoResponse EXCEPT
                        !.status = 200, !.type = "init",
                        !.count = IF count # <<>> THEN parseInt(count) ELSE 0,
                        !.username = IF username = NULL THEN "anonymous" ELSE username]]]
    /\ UNCHANGED storeVars

\* ---- POST /api/increment (delta 1) and POST /api/decrement (delta -1)
CountHandler(r, kind, delta, postId, sequential) ==
    /\ CanReceive(r, sequential)
    /\ reqs' = [reqs EXCEPT ![r] =
            IF ~postId
            THEN [IdleReq EXCEPT !.kind = kind, !.pc = "done", !.response = ErrorResponse]
            ELSE [IdleReq EXCEPT !.kind = kind, !.pc = "incrBy", !.delta = delta,
                                 !.ops = 1]]
    /\ UNCHANGED storeVars

IncrementHandler(r, postId, sequential) ==
    CountHandler(r, "increment", 1, postId, sequential)

DecrementHandler(r, postId, sequential) ==
    CountHandler(r, "decrement", -1, postId, sequential)

\* redis.incrBy('count', delta) settles; the handlers have no catch block.
IncrBySettled(r, ok, uncaught) ==
    /\ reqs[r].pc = "incrBy"
    /\ IF ok
       THEN LET value == incrBy(count, reqs[r].delta)
            IN /\ count' = IntToString(value)
               /\ reqs' = [reqs EXCEPT ![r] = [@ EXCEPT !.pc = "done",
                            !.response = [NoResponse EXCEPT
                                !.status = 200, !.type = reqs[r].kind,
                                !.count = value]]]
       ELSE /\ reqs' = [reqs EXCEPT ![r] = Uncaught(@, uncaught)]
            /\ UNCHANGED count
    /\ UNCHANGED <<zsets, ttl, lost>>

\* ---- GET /api/leaderboard
LeaderboardGet(r, periodParam, sequential) ==
    /\ CanReceive(r, sequential)
    /\ LET period == IF periodParam \in {"weekly", "monthly", "overall"}
                     THEN periodParam ELSE "daily"
       IN reqs' = [reqs EXCEPT ![r] =
            FetchEntries([IdleReq EXCEPT !.kind = "lbGet", !.periodParam = periodParam],
                         period)]
    /\ UNCHANGED storeVars

\* redis.zRange settles: the end of both leaderboard handlers.
ZRangeSettled(r, ok) ==
    /\ reqs[r].pc = "zRange"
    /\ reqs' = [reqs EXCEPT ![r] =
            IF ~ok THEN Catch(@)
            ELSE [@ EXCEPT !.pc = "done",
                    !.response = [NoResponse EXCEPT
                        !.status = 200,
                        !.type = IF reqs[r].kind = "lbGet"
                                 THEN "leaderboard" ELSE "leaderboard_update",
                        !.period = Head(reqs[r].periods),
                        !.day = getLeaderboardDay(clock),
                        !.entries = zRangeEntries(zsets, reqs[r].leaderboardKey)]]]
    /\ UNCHANGED storeVars

\* ---- POST /api/leaderboard
LeaderboardPost(r, rawScore, periodParam, sequential) ==
    /\ CanReceive(r, sequential)
    /\ LET newScore == ToNumber(rawScore)
           req == [IdleReq EXCEPT !.kind = "lbPost", !.rawScore = rawScore,
                                  !.score = newScore,
                                  !.periodParam = periodParam, !.before = zsets]
       IN reqs' = [reqs EXCEPT ![r] =
            IF IsInvalidScore(newScore)
            THEN [req EXCEPT !.pc = "done", !.response = ErrorResponse]
            ELSE [req EXCEPT !.pc = "getCurrentUsername", !.ops = 1]]
    /\ UNCHANGED storeVars

\* reddit.getCurrentUsername() settles.
UsernameSettled(r, ok, outcome) ==
    /\ reqs[r].pc = "getCurrentUsername"
    /\ reqs' = [reqs EXCEPT ![r] =
            IF ~ok THEN Catch(@)
            ELSE LET username == IF outcome = NULL THEN "anonymous" ELSE outcome
                     periodParam == IF reqs[r].periodParam = "missing"
                                    THEN "daily" ELSE reqs[r].periodParam
                     periods == IF periodParam = "all" THEN PERIODS ELSE <<periodParam>>
                 IN LoopHead([@ EXCEPT !.username = username,
                                       !.periodParam = periodParam], periods)]
    /\ UNCHANGED storeVars

\* redis.zScore settles.
ZScoreSettled(r, ok) ==
    /\ reqs[r].pc = "zScore"
    /\ reqs' = [reqs EXCEPT ![r] =
            IF ~ok THEN Catch(@)
            ELSE LET existingScore ==
                        zScore(zsets, reqs[r].leaderboardKey, reqs[r].username)
                 IN IF ShouldWrite(existingScore, reqs[r].score.v)
                    THEN [@ EXCEPT !.pc = "zAdd", !.ops = @ + 1]
                    ELSE LoopHead(@, Tail(reqs[r].periods))]
    /\ UNCHANGED storeVars

\* redis.zAdd settles.  `if (expireSeconds)`: null (period 'overall') and 0
\* are falsy.
ZAddSettled(r, ok) ==
    /\ reqs[r].pc = "zAdd"
    /\ LET req == reqs[r]
           period == Head(req.periods)
           stored == zScore(zsets, req.leaderboardKey, req.username)
       IN IF ~ok
          THEN /\ reqs' = [reqs EXCEPT ![r] = Catch(@)]
               /\ UNCHANGED <<zsets, lost>>
          ELSE /\ zsets' = zAdd(zsets, req.leaderboardKey, req.username, req.score.v)
               /\ lost' = IF stored # <<>> /\ stored[1] > req.score.v
                          THEN lost \cup {<<req.leaderboardKey, req.username>>}
                          ELSE lost
               /\ reqs' = [reqs EXCEPT ![r] =
                    IF period # "overall" /\ getSecondsUntilNextPeriod(period, clock) # 0
                    THEN [@ EXCEPT !.pc = "expire", !.ops = @ + 1,
                            !.expireSeconds = getSecondsUntilNextPeriod(period, clock)]
                    ELSE LoopHead(@, Tail(req.periods))]
    /\ UNCHANGED <<ttl, count>>

\* redis.expire settles.
ExpireSettled(r, ok) ==
    /\ reqs[r].pc = "expire"
    /\ IF ~ok
       THEN /\ reqs' = [reqs EXCEPT ![r] = Catch(@)]
            /\ UNCHANGED ttl
       ELSE /\ ttl' = (reqs[r].leaderboardKey :> reqs[r].expireSeconds) @@ ttl
            /\ reqs' = [reqs EXCEPT ![r] = LoopHead(@, Tail(reqs[r].periods))]
    /\ UNCHANGED <<zsets, count, lost>>

\* ---- the server's clock: half a minute before and after the midnight that
\* ends Sunday 2024-03-31, where the day, the ISO week and the month change.
ServerStartClock == [day |-> DaysFromCivil(2024, 3, 31), ms |-> 86370000]
ServerStartCal == [y |-> 2024, m |-> 3, d |-> 31, wd |-> 7, isoY |-> 2024, isoW |-> 13]

ServerTick ==
    /\ clock = ServerStartClock
    /\ clock' = [day |-> clock.day + 1, ms |-> 30000]
    /\ cal' = NextCal(cal)
    /\ UNCHANGED <<resolved, reqs, storeVars>>

ServerInit ==
    /\ zsets = <<>>
    /\ ttl = <<>>
    /\ count = <<>>
    /\ lost = {}
    /\ reqs = [r \in 1..MaxReqs |-> IdleReq]

\* The steps of the handlers; `sequential` makes the server take a request
\* only when no other is being handled.
ServerStep(sequential) ==
    \/ (\E r \in 1..MaxReqs, postId \in BOOLEAN : InitHandler(r, postId, sequential))
            /\ UNCHANGED <<gameVars, dateVars, call, app>>
    \/ (\E r \in 1..MaxReqs, ok \in BOOLEAN, username \in IdentityOutcomes :
            InitSettled(r, ok, username)) /\ UNCHANGED <<gameVars, dateVars, call, app>>
    \/ (\E r \in 1..MaxReqs, postId \in BOOLEAN : IncrementHandler(r, postId, sequential))
            /\ UNCHANGED <<gameVars, dateVars, call, app>>
    \/ (\E r \in 1..MaxReqs, postId \in BOOLEAN : DecrementHandler(r, postId, sequential))
            /\ UNCHANGED <<gameVars, dateVars, call, app>>
    \/ (\E r \in 1..MaxReqs, ok \in BOOLEAN, uncaught \in UncaughtOutcomes :
            IncrBySettled(r, ok, uncaught)) /\ UNCHANGED <<gameVars, dateVars, call, app>>
    \/ (\E r \in 1..MaxReqs, periodParam \in PeriodParams :
            LeaderboardGet(r, periodParam, sequential)) /\ UNCHANGED <<gameVars, dateVars, call, app>>
    \/ (\E r \in 1..MaxReqs, ok \in BOOLEAN : ZRangeSettled(r, ok))
            /\ UNCHANGED <<gameVars, dateVars, call, app>>
    \/ (\E r \in 1..MaxReqs, rawScore \in BodyScores, periodParam \in PeriodParams :
            LeaderboardPost(r, rawScore, periodParam, sequential))
            /\ UNCHANGED <<gameVars, dateVars, call, app>>
    \/ (\E r \in 1..MaxReqs, ok \in BOOLEAN, outcome \in IdentityOutcomes :
            UsernameSettled(r, ok, outcome)) /\ UNCHANGED <<gameVars, dateVars, call, app>>
    \/ (\E r \in 1..MaxReqs, ok \in BOOLEAN : ZScoreSettled(r, ok))
            /\ UNCHANGED <<gameVars, dateVars, call, app>>
    \/ (\E r \in 1..MaxReqs, ok \in BOOLEAN : ZAddSettled(r, ok))
            /\ UNCHANGED <<gameVars, dateVars, call, app>>
    \/ (\E r \in 1..MaxReqs, ok \in BOOLEAN : ExpireSettled(r, ok))
            /\ UNCHANGED <<gameVars, dateVars, call, app>>

-----------------------------------------------------------------------------
(* App.tsx: the earlier variant of the game, with one target word.  Its    *)
(* state is the record `app`.  A handler is one step, taken together with   *)
(* the completion effect (deps [buckets, targetWord]) of the render it      *)
(* causes.  The pending 900 ms timeouts are a queue of their kinds: they    *)
(* fire in the order they were set, and nothing clears them.                *)

WORDS == <<
    <<"c", "a", "t">>, <<"s", "u", "n">>, <<"m", "a", "p">>, <<"j", "a", "r">>,
    <<"s", "k", "y">>, <<"f", "o", "x">>, <<"p", "e", "n">>, <<"b", "u", "g">>,
    <<"o", "w", "l">>, <<"n", "e", "t">>, <<"j", "a", "m">>, <<"z", "i", "p">>,
    <<"h", "u", "g">>, <<"c", "u", "p">>, <<"b", "e", "d">>, <<"f", "i", "g">>,
    <<"k", "i", "d">>, <<"i", "c", "e">>, <<"v", "a", "n">>, <<"h", "a", "t">> >>

\* WORDS[Math.floor(Math.random() * WORDS.length)], r being the floor.
pickWord(r) == WORDS[r + 1]

\* The floors explored for pickWord.
AppWordDraws == {0, 1}

\* App.tsx's pickLetter: draw = <<Math.random() < 0.72, the floor>>.
App_pickLetter(target, draw) ==
    IF draw[1] THEN target[draw[2] + 1] ELSE ALPHABET[draw[2] + 1]

AppLetterDraws == {<<TRUE, 0>>, <<TRUE, 1>>, <<TRUE, 2>>}

\* App.tsx's buildGameSize, in hundredths and ten-thousandths of a pixel.
App_buildGameSize(win) ==
    LET isWide == 10 * win.w > 11 * win.h
        maxHeight == Min(82 * win.h, 72000)
        maxWidth == Min(9200 * win.w,
                        IF isWide THEN maxHeight * 110 ELSE maxHeight * 72)
    IN [width |-> Max(320, Round(maxWidth, 10000)),
        height |-> Max(520, Round(maxHeight, 100))]

AppWindow == [w |-> 512, h |-> 800]

\* getBoundingClientRect() of bucket i: a row 88% wide, centred, 24 px
\* above the bottom edge (bottom-6), 80 px high (h-20), the three buckets of
\* equal width with a gap of 12 px (gap-3).
App_BucketRect(i, size) ==
    LET rowWidth == (size.width * 88) \div 100
        rowLeft == (size.width - rowWidth) \div 2
        w == (rowWidth - 2 * 12) \div 3
        left == rowLeft + (i - 1) * (w + 12)
    IN [left |-> left, right |-> left + w,
        top |-> size.height - 24 - 80, bottom |-> size.height - 24]

InRect(p, rect) ==
    /\ p.x >= rect.left
    /\ p.x <= rect.right
    /\ p.y >= rect.top
    /\ p.y <= rect.bottom

\* bucketRefs.current.findIndex(...); 0 stands for -1.
App_DropTargetIndex(p, size) ==
    IF \E i \in 1..3 : InRect(p, App_BucketRect(i, size))
    THEN CHOOSE i \in 1..3 :
            /\ InRect(p, App_BucketRect(i, size))
            /\ \A j \in 1..(i - 1) : ~InRect(p, App_BucketRect(j, size))
    ELSE 0

\* Pointer positions explored for the pointer-up: one inside each bucket
\* and one above the buckets.
AppUpPoints ==
    {[x |-> 90, y |-> 590], [x |-> 235, y |-> 590], [x |-> 380, y |-> 590],
     [x |-> 235, y |-> 200]}

\* Array(3).fill(null)
App_EmptyBuckets == <<NULL, NULL, NULL>>

\* The state after the mount: the useState initialisers and the
\* updateSize() of the resize effect.
AppMounted(r) ==
    [targetWord |-> pickWord(r),
     letters    |-> <<>>,
     buckets    |-> App_EmptyBuckets,
     score      |-> 0,
     status     |-> "",
     gameSize   |-> App_buildGameSize(AppWindow),
     draggedId  |-> NoId,
     dragOffset |-> [x |-> 0, y |-> 0],
     timeouts   |-> <<>>,
     nextId     |-> 1]

AppIdle == AppMounted(0)

AppInit == app \in {AppMounted(r) : r \in AppWordDraws}

\* The mutant: a wrong combination starts a new word like a right one.
App_CompletionEffect_alwaysNewWord(a) ==
    IF \E i \in 1..Len(a.buckets) : a.buckets[i] = NULL
    THEN a
    ELSE IF a.buckets = a.targetWord
    THEN [a EXCEPT !.score = @ + 10,
                   !.status = "Nice! Word completed.",
                   !.timeouts = Append(@, "win")]
    ELSE [a EXCEPT !.status = "Not quite! Try again.",
                   !.timeouts = Append(@, "win")]

\* The completion effect for the values of the new render.  The buckets
\* hold one character each, so buckets.join('') === targetWord compares
\* them slot by slot with the characters of the word.
App_CompletionEffect(a) ==
    IF \E i \in 1..Len(a.buckets) : a.buckets[i] = NULL
    THEN a
    ELSE IF a.buckets = a.targetWord
    THEN [a EXCEPT !.score = @ + 10,
                   !.status = "Nice! Word completed.",
                   !.timeouts = Append(@, "win")]
    ELSE [a EXCEPT !.status = "Not quite! Try again.",
                   !.timeouts = Append(@, "retry")]

\* The spawn interval's callback.
App_Spawn(draw, pct, speed) ==
    LET next == [id |-> app.nextId,
                 char |-> App_pickLetter(app.targetWord, draw),
                 x |-> ((app.gameSize.width - LETTER_SIZE) * pct) \div 100,
                 y |-> -LETTER_SIZE,
                 speed |-> speed,
                 isDragging |-> FALSE]
    IN app' = [app EXCEPT !.letters = AppendCapped(@, next),
                          !.nextId = @ + 1]

\* The gravity interval's callback.
App_GravityTick ==
    app' = [app EXCEPT !.letters = Fall(@, app.gameSize)]

\* onPointerDown of letter i, grabbed at `grab` from its corner; the play
\* area clips its content (overflow-hidden).
App_handlePointerDown(i, grab) ==
    /\ i \in 1..Len(app.letters)
    /\ InPlayArea([x |-> app.letters[i].x + grab.x,
                   y |-> app.letters[i].y + grab.y], app.gameSize)
    /\ app' = [app EXCEPT
                !.draggedId = app.letters[i].id,
                !.dragOffset = grab,
                !.letters = Map(@, LAMBDA item :
                                IF item.id = app.letters[i].id
                                THEN [item EXCEPT !.isDragging = TRUE]
                                ELSE item)]

\* The window's pointerup listener, subscribed while draggedId is set.
\* Any character is accepted by an empty bucket; when the dragged letter is
\* no longer live the slot keeps its value (?.char ?? slot).
App_handlePointerUp(p) ==
    /\ app.draggedId # NoId
    /\ LET dropTargetIndex == App_DropTargetIndex(p, app.gameSize)
           found == FindLetter(app.letters, app.draggedId)
       IN IF CanDropInto(app.buckets, dropTargetIndex)
          THEN app' = App_CompletionEffect(
                        [app EXCEPT
                            !.buckets = IF found # 0
                                        THEN PlaceInBucket(@, dropTargetIndex,
                                                           app.letters[found].char)
                                        ELSE @,
                            !.letters = RemoveLetter(@, app.draggedId),
                            !.draggedId = NoId])
          ELSE app' = [app EXCEPT !.letters = ReturnToFalling(@, app.draggedId),
                                  !.draggedId = NoId]

\* A 900 ms timeout of the completion effect fires, r being the floor of
\* its pickWord().
App_Timeout(r) ==
    /\ app.timeouts # <<>>
    /\ IF Head(app.timeouts) = "win"
       THEN app' = App_CompletionEffect(
                     [app EXCEPT !.buckets = App_EmptyBuckets,
                                 !.letters = <<>>,
                                 !.targetWord = pickWord(r),
                                 !.status = "",
                                 !.timeouts = Tail(@)])
       ELSE app' = App_CompletionEffect(
                     [app EXCEPT !.buckets = App_EmptyBuckets,
                                 !.status = "",
                                 !.timeouts = Tail(@)])

\* The "New Word" button.
App_handleReset(r) ==
    app' = App_CompletionEffect(
             [app EXCEPT !.buckets = App_EmptyBuckets,
                         !.letters = <<>>,
                         !.targetWord = pickWord(r),
                         !.status = ""])

-----------------------------------------------------------------------------
(* The specifications *)

\* The game: BucketGame from its mount on.
NoCall == [fn |-> "none", args |-> <<>>, result |-> <<>>]

Init == GameInit /\ DateInit /\ ServerInit /\ call = NoCall /\ app = AppIdle

Next == GameNext

Spec == Init /\ [][Next]_vars

\* The resolver over the calendar.
InitDate == GameIdle /\ DateInit /\ ServerInit /\ call = NoCall /\ app = AppIdle

SpecDate == InitDate /\ [][DateNext]_vars

\* The game from mount to unmount: the letters are drawn from the words
\* only, and a drag ends where the pointer went down or on a bucket.
InitLife == GameInit /\ DateInit /\ ServerInit /\ call = NoCall /\ app = AppIdle

NextLife ==
    \/ (\E k \in 0..2, pct \in SpawnXPercents, speed \in Speeds :
            SpawnTick(<<TRUE, k>>, pct, speed)) /\ UNCHANGED <<dateVars, serverVars, call, app>>
    \/ GravityTick /\ UNCHANGED <<dateVars, serverVars, call, app>>
    \/ (\E i \in 1..MAX_LETTERS, grab \in GrabOffsets : handlePointerDown(i, grab))
            /\ UNCHANGED <<dateVars, serverVars, call, app>>
    \/ (\E p \in MovePoints : handlePointerMove(p)) /\ UNCHANGED <<dateVars, serverVars, call, app>>
    \/ (\E p \in UpPoints : handlePointerUp(p)) /\ UNCHANGED <<dateVars, serverVars, call, app>>
    \/ (\E r \in WordSetDraws : CompletionTimeout(r)) /\ UNCHANGED <<dateVars, serverVars, call, app>>
    \/ (\E r \in WordSetDraws : handleReset(r)) /\ UNCHANGED <<dateVars, serverVars, call, app>>
    \/ Unmount /\ UNCHANGED <<dateVars, serverVars, call, app>>

SpecLife == InitLife /\ [][NextLife]_vars

\* The game under resizes between two window sizes, with letters that take
\* several ticks to cross the play area and can be grabbed at their top
\* edge while partly below the bottom edge.
MaxFallSpawns == 2

FineSpeed == 280

FallWindows == {[w |-> 512, h |-> 672], [w |-> 400, h |-> 552]}

FallGrabOffsets == {[x |-> 24, y |-> 24], [x |-> 24, y |-> 0]}

InitFall == GameIdle /\ DateInit /\ ServerInit /\ call = NoCall /\ app = AppIdle

SpawnTickFall(pct) ==
    /\ nextId <= MaxFallSpawns
    /\ Spawn(<<TRUE, 0>>, pct, FineSpeed)

NextFall ==
    \/ (\E pct \in SpawnXPercents : SpawnTickFall(pct))
            /\ UNCHANGED <<dateVars, serverVars, call, app>>
    \/ GravityTick /\ UNCHANGED <<dateVars, serverVars, call, app>>
    \/ (\E i \in 1..MAX_LETTERS, grab \in FallGrabOffsets : handlePointerDown(i, grab))
            /\ UNCHANGED <<dateVars, serverVars, call, app>>
    \/ (\E p \in MovePoints : handlePointerMove(p)) /\ UNCHANGED <<dateVars, serverVars, call, app>>
    \/ (\E p \in MovePoints : handlePointerUp(p)) /\ UNCHANGED <<dateVars, serverVars, call, app>>
    \/ (\E win \in FallWindows : updateSize(win)) /\ UNCHANGED <<dateVars, serverVars, call, app>>

SpecFall == InitFall /\ [][NextFall]_vars

\* wordLogic.ts on its own: each step is one call of one of its functions,
\* with the arguments drawn from the sets below.
MaxBlurred == 3

\* Word sets handed to the functions: the catalog, and sets the game does
\* not have (index-wise combinations that are no word, a repeated column,
\* words of two letters, a single word).
CallWordSets ==
    Range(WORD_SETS) \cup
    {[label |-> "Test", words |-> << <<"c","a","t">>, <<"c","o","p">> >>],
     [label |-> "Test", words |-> << <<"t","a","t">>, <<"t","o","t">>, <<"c","a","t">> >>],
     [label |-> "Test", words |-> << <<"u","p">>, <<"u","s">> >>],
     [label |-> "Test", words |-> << <<"c","a","t">> >>]}

\* Slot contents handed to isWordComplete.
CallSlots == {"c", "a", "t", "p", "o", NULL}

\* Word sets handed to isWordComplete.
CallCompleteSets == {ws \in CallWordSets : ws.words[1][1] = "c"}

InitLogic == GameIdle /\ DateInit /\ ServerInit /\ call = NoCall /\ app = AppIdle

CallBuildBlurredLetters(length, draws) ==
    call' = [fn |-> "buildBlurredLetters", args |-> <<length, draws>>,
             result |-> buildBlurredLetters(length, draws)]

CallGetValidLettersByIndex(ws) ==
    call' = [fn |-> "getValidLettersByIndex", args |-> <<ws>>,
             result |-> getValidLettersByIndex(ws)]

CallIsWordComplete(bs, ws) ==
    call' = [fn |-> "isWordComplete", args |-> <<bs, ws>>,
             result |-> <<isWordComplete(bs, ws)>>]

NextLogic ==
    \/ (\E length \in 0..MaxBlurred : \E draws \in [1..length -> RandomDraws] :
            CallBuildBlurredLetters(length, draws))
            /\ UNCHANGED <<gameVars, dateVars, serverVars, app>>
    \/ (\E ws \in CallWordSets : CallGetValidLettersByIndex(ws))
            /\ UNCHANGED <<gameVars, dateVars, serverVars, app>>
    \/ (\E bs \in [1..3 -> CallSlots], ws \in CallCompleteSets : CallIsWordComplete(bs, ws))
            /\ UNCHANGED <<gameVars, dateVars, serverVars, app>>

SpecLogic == InitLogic /\ [][NextLogic]_vars

\* The game with one letter drawn again and again, for long enough to fill
\* the live-letter collection: spawn, gravity, and drags of the two oldest
\* letters.
InitCap == GameIdle /\ DateInit /\ ServerInit /\ call = NoCall /\ app = AppIdle

SpawnTickCap(pct, speed) ==
    /\ nextId <= MaxCapSpawns
    /\ Spawn(<<TRUE, 0>>, pct, speed)

NextCap ==
    \/ (\E pct \in SpawnXPercents, speed \in Speeds : SpawnTickCap(pct, speed))
            /\ UNCHANGED <<dateVars, serverVars, call, app>>
    \/ GravityTick /\ UNCHANGED <<dateVars, serverVars, call, app>>
    \/ (\E i \in 1..2, grab \in GrabOffsets : handlePointerDown(i, grab))
            /\ UNCHANGED <<dateVars, serverVars, call, app>>
    \/ (\E p \in UpPoints : handlePointerUp(p))
            /\ UNCHANGED <<dateVars, serverVars, call, app>>

SpecCap == InitCap /\ [][NextCap]_vars

\* One round of the game for every word set of the catalog: three letters
\* drawn from the words of the set (the first word and the last letters of
\* the other two), released on one of the three buckets.  A timeout that
\* is pending fires after its 900 ms: the timeout step is weakly fair.
CatalogDraws == 0..(Len(WORD_SETS) - 1)

RoundLetterDraws == {<<TRUE, 0>>, <<TRUE, 1>>, <<TRUE, 2>>, <<TRUE, 5>>, <<TRUE, 8>>}

BucketPoints == {[x |-> 60, y |-> 500], [x |-> 300, y |-> 500], [x |-> 400, y |-> 500]}

InitRounds ==
    /\ GameInitOver(CatalogDraws)
    /\ DateInit /\ ServerInit /\ call = NoCall /\ app = AppIdle

TimeoutFires ==
    (\E r \in {0} : CompletionTimeout(r)) /\ UNCHANGED <<dateVars, serverVars, call, app>>

NextRounds ==
    \/ (\E draw \in RoundLetterDraws, pct \in SpawnXPercents, speed \in Speeds :
            SpawnTick(draw, pct, speed)) /\ UNCHANGED <<dateVars, serverVars, call, app>>
    \/ GravityTick /\ UNCHANGED <<dateVars, serverVars, call, app>>
    \/ (\E i \in 1..MAX_LETTERS, grab \in GrabOffsets : handlePointerDown(i, grab))
            /\ UNCHANGED <<dateVars, serverVars, call, app>>
    \/ (\E p \in BucketPoints : handlePointerUp(p)) /\ UNCHANGED <<dateVars, serverVars, call, app>>
    \/ TimeoutFires

SpecRounds == InitRounds /\ [][NextRounds]_vars /\ WF_vars(TimeoutFires)

\* The App variant: up to MaxAppSpawns letters of the target word, which
\* cross the play area in two ticks.
MaxAppSpawns == 4

InitApp == GameIdle /\ DateInit /\ ServerInit /\ call = NoCall /\ AppInit

App_SpawnTick(draw, pct, speed) ==
    /\ app.nextId <= MaxAppSpawns
    /\ App_Spawn(draw, pct, speed)

NextApp ==
    \/ (\E draw \in AppLetterDraws, pct \in SpawnXPercents, speed \in Speeds :
            App_SpawnTick(draw, pct, speed))
            /\ UNCHANGED <<gameVars, dateVars, serverVars, call>>
    \/ App_GravityTick /\ UNCHANGED <<gameVars, dateVars, serverVars, call>>
    \/ (\E i \in 1..MaxAppSpawns, grab \in GrabOffsets : App_handlePointerDown(i, grab))
            /\ UNCHANGED <<gameVars, dateVars, serverVars, call>>
    \/ (\E p \in AppUpPoints : App_handlePointerUp(p))
            /\ UNCHANGED <<gameVars, dateVars, serverVars, call>>
    \/ (\E r \in AppWordDraws : App_Timeout(r))
            /\ UNCHANGED <<gameVars, dateVars, serverVars, call>>
    \/ (\E r \in AppWordDraws : App_handleReset(r))
            /\ UNCHANGED <<gameVars, dateVars, serverVars, call>>

SpecApp == InitApp /\ [][NextApp]_vars

\* The server with its requests overlapping, within one instant of the clock.
InitServer ==
    /\ GameIdle
    /\ clock = ServerStartClock
    /\ cal = ServerStartCal
    /\ resolved = NoResult
    /\ ServerInit
    /\ call = NoCall /\ app = AppIdle

NextServer == ServerStep(FALSE)

SpecServer == InitServer /\ [][NextServer]_vars

\* The leaderboard read over stores that earlier submissions left: the
\* daily and the weekly key of the starting date hold the best scores of
\* the first n members, each key with the expiry set at its last write.
FetchSizes == {0, 3, 10, 12}

ScorePatterns == {"rising", "tied", "mixed"}

ScoreOf(pattern, i) ==
    CASE pattern = "rising" -> 10 * i
      [] pattern = "tied" -> 50
      [] pattern = "mixed" -> 10 * (((i * 7) % 5) + 1)

Board(n, pattern) ==
    [m \in {MEMBERS[i] : i \in 1..n} |-> ScoreOf(pattern, Rank(m))]

InitFetch ==
    /\ GameIdle
    /\ clock = ServerStartClock
    /\ cal = ServerStartCal
    /\ resolved = NoResult
    /\ call = NoCall /\ app = AppIdle
    /\ count = <<>>
    /\ lost = {}
    /\ reqs = [r \in 1..MaxReqs |-> IdleReq]
    /\ \E n \in FetchSizes, daily \in ScorePatterns, weekly \in ScorePatterns :
          zsets = IF n = 0 THEN <<>>
                  ELSE (getLeaderboardKey("daily", clock) :> Board(n, daily))
                       @@ (getLeaderboardKey("weekly", clock) :> Board(n, weekly))
    /\ ttl = [key \in DOMAIN zsets |-> 60]

NextFetch ==
    \/ (\E r \in 1..MaxReqs, periodParam \in PeriodParams :
            LeaderboardGet(r, periodParam, TRUE)) /\ UNCHANGED <<gameVars, dateVars, call, app>>
    \/ (\E r \in 1..MaxReqs, ok \in BOOLEAN : ZRangeSettled(r, ok))
            /\ UNCHANGED <<gameVars, dateVars, call, app>>
    \/ ServerTick /\ UNCHANGED <<gameVars, call, app>>

SpecFetch == InitFetch /\ [][NextFetch]_vars

\* The server handling one request after the other, while the clock moves.
InitSeq == InitServer

NextSeq ==
    \/ ServerStep(TRUE)
    \/ ServerTick /\ UNCHANGED <<gameVars, call, app>>

SpecSeq == InitSeq /\ [][NextSeq]_vars

-----------------------------------------------------------------------------
(* Properties of the game (checked under Spec) *)

\* The characters the words of ws have at index i.
LettersAt(ws, i) == {w[i] : w \in Range(ws.words)}

AllEmpty(bs) == \A i \in 1..Len(bs) : bs[i] = NULL

\* This step fills the buckets to a word of the active set.
BecomesWord == buckets' # buckets /\ buckets' \in Range(wordSet'.words)

\* This step handles a pointer-up.
IsPointerUp == lastUp' # NoPoint

\* The bucket the release point of this step's pointer-up hits (0: none).
HitBucket == DropTargetIndex(lastUp', Len(buckets), gameSize)

\* The live letter being dragged before this step (0: none).
Dragged == FindLetter(letters, draggedId)

\* C1: whenever the slots become filled with any word of the active set, the
\* score rises by exactly 10 and one timeout is scheduled; the score changes
\* in no other step; and the step of a timeout starts a round with no live
\* letter and all slots empty.
C1_CompletionScoresOnce ==
    [][ /\ BecomesWord => score' = score + 10 /\ timers' = timers + 1
        /\ score' # score => BecomesWord /\ score' = score + 10
        /\ timers' > timers => BecomesWord
        /\ timers' < timers =>
              timers' = timers - 1 /\ letters' = <<>> /\ AllEmpty(buckets')
      ]_vars

\* A round completed with the second word of its set, the score counted.
C1_Witness ==
    /\ buckets = <<"r", "a", "g">>
    /\ wordSet = WORD_SETS[1]
    /\ score = 10
    /\ timers = 1

\* C2: a slot goes from empty to a letter only in a pointer-up step whose hit
\* bucket is that slot, the dragged letter being live with a character of
\* that index's valid letters; the step removes that letter, writes its
\* character there and changes no other slot; a filled slot keeps its letter
\* until a new round empties all slots.
C2_SlotFilledOnlyByValidDrop ==
    [][ \A i \in 1..Len(buckets) :
          /\ (buckets[i] = NULL /\ buckets'[i] # NULL) =>
                /\ IsPointerUp
                /\ HitBucket = i
                /\ Dragged # 0
                /\ letters[Dragged].char \in LettersAt(wordSet, i)
                /\ buckets' = [buckets EXCEPT ![i] = letters[Dragged].char]
                /\ letters' = SelectSeq(letters, LAMBDA l : l.id # draggedId)
                /\ Len(letters') = Len(letters) - 1
          /\ buckets[i] # NULL =>
                \/ buckets'[i] = buckets[i]
                \/ AllEmpty(buckets') /\ letters' = <<>>
      ]_vars

\* The only letter spawned so far has just been dropped into bucket 1.
C2_Witness ==
    /\ lastUp # NoPoint
    /\ nextId = 2
    /\ letters = <<>>
    /\ buckets = <<"r", NULL, NULL>>
    /\ draggedId = NoId

\* This step's pointer-up hits no bucket, an occupied bucket, or a bucket
\* whose valid letters do not hold the dragged letter's character.
DropRefused ==
    /\ IsPointerUp
    /\ \/ HitBucket = 0
       \/ buckets[HitBucket] # NULL
       \/ Dragged # 0 /\ letters[Dragged].char \notin LettersAt(wordSet, HitBucket)

\* C3: a pointer-up that does not place the letter leaves every slot as it
\* is and keeps every live letter where it is; the dragged letter stays in
\* the collection, no longer dragging, with its x and y.
C3_RefusedDropKeepsPosition ==
    [][ DropRefused =>
          /\ buckets' = buckets
          /\ draggedId' = NoId
          /\ Len(letters') = Len(letters)
          /\ \A k \in 1..Len(letters) :
                letters'[k] =
                    IF letters[k].id = draggedId
                    THEN [letters[k] EXCEPT !.isDragging = FALSE]
                    ELSE letters[k]
      ]_vars

\* An "a" dragged away from the top and released on bucket 1, which takes
\* only the first letters: it is live, not dragging, at its drop position.
C3_Witness ==
    /\ lastUp # NoPoint
    /\ DropTargetIndex(lastUp, Len(buckets), gameSize) = 1
    /\ nextId = 2
    /\ Len(letters) = 1
    /\ letters[1].char = "a"
    /\ ~letters[1].isDragging
    /\ letters[1].y = 200 - 24
    /\ AllEmpty(buckets)

\* C4: the buckets are as many as the letters of a word of the active set,
\* and every filled slot holds one of the valid letters of its index.
C4_BucketsValidForWordSet ==
    /\ Len(buckets) = Len(wordSet.words[1])
    /\ \A i \in 1..Len(buckets) :
          buckets[i] # NULL => buckets[i] \in LettersAt(wordSet, i)

\* A new round under the C* words cleared the only letter while it was being
\* dragged, and the pointer-up that followed, on the empty bucket 1, placed
\* nothing.
C4_Witness ==
    /\ wordSet = WORD_SETS[2]
    /\ lastUp # NoPoint
    /\ DropTargetIndex(lastUp, Len(buckets), gameSize) = 1
    /\ nextId = 2
    /\ letters = <<>>
    /\ AllEmpty(buckets)

-----------------------------------------------------------------------------
(* Properties of the resolver (checked under SpecDate) *)

TwoDigits(n) == <<Digit(n \div 10), Digit(n % 10)>>

FourDigits(n) == TwoDigits(n \div 100) \o TwoDigits(n % 100)

\* The key of a period on the calendar date c.
CalendarKey(period, c) ==
    CASE period = "daily" ->
            <<"leaderboard:daily:">> \o FourDigits(c.y) \o <<"-">> \o TwoDigits(c.m)
            \o <<"-">> \o TwoDigits(c.d)
      [] period = "weekly" ->
            <<"leaderboard:weekly:">> \o FourDigits(c.isoY) \o <<"-", "W">>
            \o TwoDigits(c.isoW)
      [] period = "monthly" ->
            <<"leaderboard:monthly:">> \o FourDigits(c.y) \o <<"-">> \o TwoDigits(c.m)
      [] period = "overall" -> <<"leaderboard:overall">>

\* C7: at every instant the resolver's key is the one of the calendar: the
\* UTC date, the UTC year and month, the ISO-8601 week-year and week, or the
\* constant key of overall.
C7_KeyFollowsCalendar ==
    resolved # NoResult => resolved.key = CalendarKey(resolved.period, cal)

\* Friday 2024-03-15T10:00:00Z resolved to ISO week 11 of 2024.
C7_Witness ==
    /\ cal.y = 2024 /\ cal.m = 3 /\ cal.d = 15 /\ cal.wd = 5
    /\ clock.ms = 36000000
    /\ resolved.period = "weekly"
    /\ resolved.key = <<"leaderboard:weekly:", "2", "0", "2", "4", "-", "W", "1", "1">>

\* The day on which the period of calendar date c ends (its first day not
\* in the period), for the clock's day.
BoundaryDay(period, c) ==
    CASE period = "daily" -> clock.day + 1
      [] period = "weekly" -> clock.day + (8 - c.wd)
      [] period = "monthly" -> clock.day + (DaysInMonth(c.y, c.m) - c.d + 1)

PeriodDays(period, c) ==
    CASE period = "daily" -> 1
      [] period = "weekly" -> 7
      [] period = "monthly" -> DaysInMonth(c.y, c.m)

\* C8: the expiry is null for overall and otherwise the whole seconds from
\* the clock to the period's boundary, but at least 60; the boundary is the
\* instant the period's key changes; the expiry is at most the period.
C8_ExpiryReachesBoundary ==
    resolved # NoResult =>
        IF resolved.period = "overall" THEN resolved.expiry = NULL
        ELSE LET b == BoundaryDay(resolved.period, cal)
                 \* whole seconds left: the started second does not count
                 left == (b - clock.day) * 86400 - ((clock.ms + 999) \div 1000)
             IN /\ resolved.expiry = Max(60, left)
                /\ resolved.expiry <= PeriodDays(resolved.period, cal) * 86400
                /\ getLeaderboardKey(resolved.period, [day |-> b, ms |-> 0])
                      # resolved.key
                /\ getLeaderboardKey(resolved.period,
                                     [day |-> b - 1, ms |-> MS_PER_DAY - 1])
                      = resolved.key

\* daily at 2024-03-15T23:59:30Z: 30 s are left and the expiry is 60.
C8_Witness ==
    /\ cal.y = 2024 /\ cal.m = 3 /\ cal.d = 15
    /\ clock.ms = 86370000
    /\ resolved.period = "daily"
    /\ resolved.expiry = 60

-----------------------------------------------------------------------------
(* Properties of the server (checked under SpecSeq and SpecServer) *)

Slots == 1..MaxReqs

\* Request r has been answered with this status.
Answered(r, code) == reqs[r].pc = "done" /\ reqs[r].response.status = code

\* Request r is a POST /api/leaderboard answered with 200.
Updated(r) == reqs[r].kind = "lbPost" /\ Answered(r, 200)

\* The greater of a stored score (<<>>: none) and a submitted one.
BestOf(stored, submitted) ==
    IF stored = <<>> THEN submitted ELSE Max(stored[1], submitted)

\* The first parts of the keys a submission targets, by its period (a
\* submission without a period is one for 'daily').
TargetPrefixes(periodParam) ==
    IF periodParam = "all"
    THEN <<"leaderboard:daily:", "leaderboard:weekly:", "leaderboard:monthly:",
           "leaderboard:overall">>
    ELSE IF periodParam = "weekly" THEN <<"leaderboard:weekly:">>
    ELSE <<"leaderboard:daily:">>

\* C5: with the requests handled one after another, the step that answers a
\* leaderboard submission with 200 leaves, in every key the submission
\* targets (one for a period, four for 'all'), the user's score at the
\* greater of the score stored when the request arrived and the submitted
\* score; and no step lowers or removes a stored score.
C5_SequentialSubmissionsKeepBest ==
    [][ /\ \A r \in Slots :
              (reqs[r].pc # "done" /\ reqs'[r].pc = "done" /\ reqs'[r].kind = "lbPost"
                  /\ reqs'[r].response.status = 200) =>
                 LET req == reqs'[r]
                     targets == TargetPrefixes(req.periodParam)
                 IN /\ Len(req.touched) = Len(targets)
                    /\ \A k \in 1..Len(targets) :
                          /\ Head(req.touched[k]) = targets[k]
                          /\ zScore(zsets', req.touched[k], req.username) =
                                <<BestOf(zScore(req.before, req.touched[k], req.username),
                                         req.score.v)>>
        /\ \A key \in DOMAIN zsets : \A member \in DOMAIN zsets[key] :
              /\ key \in DOMAIN zsets'
              /\ member \in DOMAIN zsets'[key]
              /\ zsets'[key][member] >= zsets[key][member]
      ]_vars

\* alice submitted 50 and then 30 for all periods: the four keys hold 50.
C5_Witness ==
    /\ Updated(1) /\ Updated(2)
    /\ reqs[1].username = "alice" /\ reqs[2].username = "alice"
    /\ reqs[1].score = Num(50) /\ reqs[2].score = Num(30)
    /\ Len(reqs[2].touched) = 4
    /\ reqs[1].touched = reqs[2].touched
    /\ \A k \in 1..4 : zScore(zsets, reqs[2].touched[k], "alice") = <<50>>

\* The score of the body is missing, not a finite number, or not positive.
BadScore(rawScore) == rawScore.t # "num" \/ rawScore.v <= 0

\* C6: a leaderboard submission whose score is missing, not finite or not
\* positive is answered with 400 in the step it arrives in, whatever its
\* period; that step leaves the sorted sets, the expiries and the counter as
\* they are, and the request never issues a call to the store or to the
\* identity provider and resolves no key.
C6_InvalidScoreRejectedUntouched ==
    [][ \A r \in Slots :
          (reqs'[r].kind = "lbPost" /\ BadScore(reqs'[r].rawScore)) =>
             /\ reqs'[r].pc = "done"
             /\ reqs'[r].response.status = 400
             /\ reqs'[r].response.type = "error"
             /\ reqs'[r].ops = 0
             /\ reqs'[r].touched = <<>>
             /\ reqs[r].pc = "idle" => UNCHANGED <<zsets, ttl, count>>
      ]_vars

\* A submission of -5 and one of NaN for all periods were both refused, and
\* the store holds no sorted set.
C6_Witness ==
    /\ reqs[1].kind = "lbPost" /\ reqs[1].rawScore = Num(-5)
    /\ reqs[2].kind = "lbPost" /\ reqs[2].rawScore = NaN
    /\ reqs[2].periodParam = "all"
    /\ Answered(1, 400) /\ Answered(2, 400)
    /\ zsets = <<>>

\* C9: with overlapping requests, the score stored for a user in a key is
\* below the score of a submission answered with 200 only where a zAdd
\* lowered the stored score, which takes two submissions of that user to
\* that key with different scores; every answered submission has left some
\* score for its user in each of its keys.
C9_LowerScoreOnlyByOverlap ==
    /\ \A r \in Slots : Updated(r) =>
          \A k \in 1..Len(reqs[r].touched) :
             LET stored == zScore(zsets, reqs[r].touched[k], reqs[r].username)
             IN /\ stored # <<>>
                /\ stored[1] < reqs[r].score.v =>
                      <<reqs[r].touched[k], reqs[r].username>> \in lost
    /\ \A pair \in lost :
          \E r1, r2 \in Slots :
             /\ r1 # r2
             /\ reqs[r1].kind = "lbPost" /\ reqs[r2].kind = "lbPost"
             /\ reqs[r1].username = pair[2] /\ reqs[r2].username = pair[2]
             /\ pair[1] \in Range(reqs[r1].touched) \cap Range(reqs[r2].touched)
             /\ reqs[r1].score.v < reqs[r2].score.v

\* Two weekly submissions of alice, 80 and 30, have both been answered with
\* 200, and the week's key holds 30 for alice.
C9_Witness ==
    /\ Updated(1) /\ Updated(2)
    /\ reqs[1].username = "alice" /\ reqs[2].username = "alice"
    /\ reqs[1].periodParam = "weekly" /\ reqs[2].periodParam = "weekly"
    /\ reqs[1].touched = reqs[2].touched
    /\ {reqs[1].score, reqs[2].score} = {Num(30), Num(80)}
    /\ zScore(zsets, reqs[1].touched[1], "alice") = <<30>>

\* C10: every request that met a rejected call of the store or of the
\* identity provider has been answered with 400 and an error body.
C10_FailuresAnswered400 ==
    \A r \in Slots :
       reqs[r].failed =>
          /\ reqs[r].response.status = 400
          /\ reqs[r].response.type = "error"


-----------------------------------------------------------------------------
(* The drag flags *)

DraggingLetters == {i \in 1..Len(letters) : letters[i].isDragging}

\* C11: in every reachable state, whatever the sequence of pointer-down,
\* pointer-move and pointer-up events (a pointer-down on a second letter
\* before the first drag has ended included), at most one live letter has
\* isDragging = TRUE.
C11_AtMostOneDragging == Cardinality(DraggingLetters) <= 1


-----------------------------------------------------------------------------
(* The cap of the live-letter collection *)

\* The step is a spawn tick: only a spawn hands out an id.
IsSpawnStep == nextId' = nextId + 1

\* C12: the live-letter collection never holds more than 14 letters; a
\* spawn tick appends exactly one new letter, not dragging, at
\* y = -LETTER_SIZE, and when that makes more than 14 it drops the oldest
\* entries and keeps the most recent 14 in spawn order.
C12_SpawnKeepsNewest14 ==
    /\ [](Len(letters) <= 14)
    /\ [][IsSpawnStep =>
            LET n == Len(letters')
                kept == n - 1
            IN /\ n = Min(Len(letters) + 1, 14)
               /\ letters'[n].id = nextId
               /\ letters'[n].y = -LETTER_SIZE
               /\ ~letters'[n].isDragging
               /\ SubSeq(letters', 1, kept)
                    = SubSeq(letters, Len(letters) - kept + 1, Len(letters))]_vars

\* The collection is full and the letter being dragged, the oldest one, is
\* no longer in it: gravity spares a dragged letter, so the cap evicted it.
C12_Witness ==
    /\ Len(letters) = 14
    /\ draggedId = 1
    /\ FindLetter(letters, 1) = 0
    /\ letters[14].y = -LETTER_SIZE


-----------------------------------------------------------------------------
(* The score *)

\* C13: the score starts at 0 and is always a non-negative multiple of 10;
\* no step lowers it; a step changes it only by adding 10, and only a
\* pointer-up that fills the buckets to a word of the set does so: a spawn,
\* a gravity tick, a pointer-down or pointer-move, a refused drop, a manual
\* reset, a resize and a new-round transition leave it as it is.
C13_ScoreCountsCompletions ==
    /\ score = 0
    /\ [](score >= 0 /\ score % 10 = 0)
    /\ [][ /\ score' >= score
           /\ score' # score =>
                /\ score' = score + 10
                /\ IsPointerUp
                /\ isWordComplete(buckets', wordSet')
                /\ buckets' # buckets
           /\ (~IsPointerUp \/ DropRefused \/ wordSet' # wordSet \/ AllEmpty(buckets'))
                => score' = score
         ]_vars

\* The round after a counted completion: the timeout has fired, the slots
\* are empty again and the score is still 10.
C13_Witness ==
    /\ score = 10
    /\ timers = 0
    /\ AllEmpty(buckets)
    /\ letters = <<>>
    /\ nextId = 4


-----------------------------------------------------------------------------
(* wordLogic.ts *)

\* C14: isWordComplete is false whenever a slot is null; otherwise it is
\* true exactly when the slots, read in order, spell one of the words of
\* the set, any of them; a combination valid index by index that is no word
\* of the set gives false.
C14_CompleteIffSlotsSpellAWord ==
    call.fn = "isWordComplete" =>
        LET bs == call.args[1]
            ws == call.args[2]
            res == call.result[1]
        IN /\ (\E i \in 1..Len(bs) : bs[i] = NULL) => ~res
           /\ (\A i \in 1..Len(bs) : bs[i] # NULL) =>
                (res <=> bs \in Range(ws.words))
           /\ bs \notin Range(ws.words) => ~res

\* The call with c, o, t and the words cat, cop: each letter is one the
\* words have at its index, cot is none of them, and the answer is false.
C14_Witness ==
    /\ call.fn = "isWordComplete"
    /\ call.args[1] = <<"c", "o", "t">>
    /\ call.args[2].words = << <<"c","a","t">>, <<"c","o","p">> >>
    /\ call.result = <<FALSE>>

\* C15: for a word set whose words all have length L, getValidLettersByIndex
\* returns exactly L sets, and set i holds exactly the characters the words
\* have at position i; rat, rag, ram give {r}, {a}, {t, g, m}.
C15_ValidLettersAreTheColumns ==
    call.fn = "getValidLettersByIndex" =>
        LET ws == call.args[1]
            L == Len(ws.words[1])
            res == call.result
        IN (\A w \in Range(ws.words) : Len(w) = L) =>
            /\ Len(res) = L
            /\ \A i \in 1..L :
                /\ \A w \in Range(ws.words) : w[i] \in res[i]
                /\ \A c \in res[i] : \E w \in Range(ws.words) : w[i] = c
                /\ Cardinality(res[i]) <= Len(ws.words)
            /\ ws.words = << <<"r","a","t">>, <<"r","a","g">>, <<"r","a","m">> >>
                => res = << {"r"}, {"a"}, {"t", "g", "m"} >>

\* The call with tat, tot, cat: the columns {t, c}, {a, o}, {t}.
C15_Witness ==
    /\ call.fn = "getValidLettersByIndex"
    /\ call.args[1].words = << <<"t","a","t">>, <<"t","o","t">>, <<"c","a","t">> >>
    /\ call.result = << {"t", "c"}, {"a", "o"}, {"t"} >>

\* C16: for every n >= 0 and every outcome of the random source,
\* buildBlurredLetters(n) returns exactly n elements, each a single
\* lowercase letter a to z.
C16_BlurredLettersLengthAndAlphabet ==
    call.fn = "buildBlurredLetters" =>
        /\ Len(call.result) = call.args[1]
        /\ \A i \in 1..Len(call.result) : call.result[i] \in Range(ALPHABET)

\* Three letters from the lowest, a middle and the highest outcome.
C16_Witness ==
    /\ call.fn = "buildBlurredLetters"
    /\ call.args = <<3, <<0, 500, 999>> >>
    /\ call.result = <<"a", "n", "z">>


-----------------------------------------------------------------------------
(* The leaderboard read *)

\* Request r is answered in this step with the entries of a leaderboard.
ReadAnswered(r) ==
    /\ reqs[r].pc = "zRange"
    /\ reqs'[r].pc = "done"
    /\ reqs'[r].response.status = 200

\* The sorted set stored under the key, as a function from member to score.
StoredSet(key) == IF key \in DOMAIN zsets THEN zsets[key] ELSE <<>>

-----------------------------------------------------------------------------
(* The manual reset *)

\* What a new-round transition with the drawn word set leaves behind.
NewRoundStarted(r) ==
    /\ wordSet' = pickWordSet(r)
    /\ Len(buckets') = Len(pickWordSet(r).words[1])
    /\ AllEmpty(buckets')
    /\ letters' = <<>>
    /\ status' = ""
    /\ score' = score

\* C18: the manual reset can be invoked in every state of the mounted game,
\* whatever the buckets hold, and it performs the new-round transition the
\* timeout of a completion performs: a word set is chosen, every slot is
\* empty, no letter is live, the status is cleared and the score is kept.
C18_ResetStartsNewRound ==
    /\ [](mounted => \A r \in WordSetDraws :
            ENABLED (handleReset(r) /\ UNCHANGED <<dateVars, serverVars, call, app>>))
    /\ [][\A r \in WordSetDraws :
            /\ handleReset(r) => NewRoundStarted(r) /\ timers' = timers
            /\ (mounted /\ CompletionTimeout(r)) => NewRoundStarted(r)
         ]_vars

\* A reset in the 900 ms after a completion: the round is new, the score
\* counted, and the timeout of the completion still pending.
C18_Witness ==
    /\ score = 10
    /\ timers = 1
    /\ AllEmpty(buckets)
    /\ letters = <<>>
    /\ status = ""


-----------------------------------------------------------------------------
(* The lifetimes of the spawn and the gravity interval *)

\* The unmount clears both intervals, and from then on no letter is
\* spawned and none is moved or removed.
StoppedAtTeardown ==
    /\ [](~mounted => spawnInterval = <<>> /\ ~gravityInterval)
    /\ [][(mounted /\ ~mounted') => cleared' = {"spawn", "gravity"}]_vars
    /\ [][~mounted => letters' = letters /\ nextId' = nextId]_vars

\* While the component is mounted a spawn interval is set whose callback
\* picks against the active word set, and every spawned letter is one of
\* the letters that set's words are made of (the draws here are all from
\* the words).
SpawnFollowsWordSet ==
    /\ [](mounted => spawnInterval = <<wordSet>>)
    /\ [][wordSet' # wordSet => "spawn" \in cleared']_vars
    /\ [][IsSpawnStep =>
            letters'[Len(letters')].char \in Range(Flatten(wordSet.words))]_vars

\* C19 as amended: both intervals are cleared at the unmount and neither
\* fires afterwards; a change of the active word set clears and restarts
\* the spawn interval only, so that every letter spawned after the change
\* is picked against the new set; the gravity interval is the one set at
\* the mount and runs until the unmount.
C19_SpawnRestartsGravityRuns ==
    /\ StoppedAtTeardown
    /\ SpawnFollowsWordSet
    /\ [](mounted => gravityInterval)
    /\ [][mounted' => "gravity" \notin cleared']_vars

\* C19 as stated: both intervals are cleared at the unmount, and both are
\* stopped when the active word set changes, the spawn interval restarting
\* against the new set.
C19_BothStoppedAtWordSetChange ==
    /\ StoppedAtTeardown
    /\ SpawnFollowsWordSet
    /\ [][wordSet' # wordSet => "gravity" \in cleared']_vars

\* The timeout of a completion has just changed the word set: the spawn
\* interval was cleared and set again for the new set, the gravity interval
\* was left running.
C19_Witness ==
    /\ score = 10
    /\ timers = 0
    /\ cleared = {"spawn"}
    /\ spawnInterval = <<WORD_SETS[2]>>
    /\ wordSet = WORD_SETS[2]
    /\ gravityInterval


-----------------------------------------------------------------------------
(* The gravity tick *)

\* The letter is live after a tick in a play area of the given height: it
\* is being dragged, or its new y is above the bottom boundary.
StaysLive(letter, height) ==
    letter.isDragging \/ letter.y + letter.speed < height + LETTER_SIZE

\* C20: a gravity tick adds to the y of every letter that is not dragging
\* its own positive speed, leaves every x and the position of a dragging
\* letter as they are, and removes exactly the letters that are not
\* dragging and whose y has reached height + LETTER_SIZE; a dragging letter
\* is never removed, whatever resizes came before.
C20_GravityMovesAndRemoves ==
    [][GravityTick =>
        LET survivors == SelectSeq(letters, LAMBDA l : StaysLive(l, gameSize.height))
        IN /\ Len(letters') = Len(survivors)
           /\ \A k \in 1..Len(survivors) :
                LET old == survivors[k]
                    new == letters'[k]
                IN /\ new.id = old.id
                   /\ new.x = old.x
                   /\ new.char = old.char
                   /\ new.speed = old.speed
                   /\ new.isDragging = old.isDragging
                   /\ old.speed > 0
                   /\ new.y = IF old.isDragging THEN old.y ELSE old.y + old.speed
           /\ \A i \in 1..Len(letters) :
                letters[i].isDragging => \E k \in 1..Len(letters') : letters'[k] = letters[i]
      ]_vars

\* Letter 1 was grabbed at its top edge while partly below the bottom of
\* the small play area, the play area then grew, letter 2 was spawned and
\* a tick moved it: letter 1 is still live and where the resize put it.
C20_Witness ==
    /\ Len(letters) = 2
    /\ gameSize.height = 640
    /\ letters[1].isDragging
    /\ letters[1].y = 630
    /\ letters[2].x = 108
    /\ letters[2].y = -LETTER_SIZE + FineSpeed


-----------------------------------------------------------------------------
(* The position of a dragged letter *)

FullyInside(letter, size) ==
    /\ 0 <= letter.x /\ letter.x <= size.width - LETTER_SIZE
    /\ 0 <= letter.y /\ letter.y <= size.height - LETTER_SIZE

\* C21: in every reachable state a letter that is dragging lies fully inside
\* the play area, 0 <= x <= width - LETTER_SIZE and 0 <= y <= height -
\* LETTER_SIZE: from the pointer-down on (a letter grabbed while partly
\* outside included), after every pointer-move and after a resize.
C21_DraggedLetterFullyInside ==
    \A i \in 1..Len(letters) :
        letters[i].isDragging => FullyInside(letters[i], gameSize)


-----------------------------------------------------------------------------
(* The hit test of the pointer-up *)

\* The buckets whose rectangle, enlarged by hitPad, holds the point.
BucketsHit(p) ==
    {i \in 1..Len(buckets) : InPaddedRect(p, BucketRect(i, Len(buckets), gameSize))}

\* C22: a pointer-up places the letter only when exactly one enlarged bucket
\* region holds the release point; when the enlarged regions of several
\* buckets hold it, the letter is placed into none of them.
C22_PlacedOnlyIfOneBucketHit ==
    [][(IsPointerUp /\ buckets' # buckets) => Cardinality(BucketsHit(lastUp')) = 1]_vars


-----------------------------------------------------------------------------
(* The pointer-up after the dragged letter is gone *)

\* C23: when the letter being dragged has left the live collection before
\* the pointer-up (evicted by the cap of the spawn, or cleared by a new
\* round), the pointer-up writes no bucket slot, adds no letter back and
\* ends the drag: draggedId becomes null and no live letter is left with
\* isDragging = TRUE.
C23_PointerUpAfterRemovalEndsDrag ==
    [][(IsPointerUp /\ Dragged = 0) =>
            /\ buckets' = buckets
            /\ Len(letters') = Len(letters)
            /\ \A i \in 1..Len(letters) : letters'[i].id = letters[i].id
            /\ draggedId' = NoId
            /\ \A i \in 1..Len(letters') : ~letters'[i].isDragging
      ]_vars

-----------------------------------------------------------------------------
(* C24 *)

\* C24: the pointermove and pointerup handlers are subscribed only while
\* the component is mounted and draggedId is set; at most one handler of
\* each type is subscribed in every state, whatever changed letters or
\* buckets during the drag; after a step that delivered the pointerup no
\* handler is subscribed; the unmount removes the handlers and changes no
\* bucket, and no bucket changes after it.
C24_ListenersFollowTheDrag ==
    /\ [](listeners # NoListeners => (mounted /\ draggedId # NoId))
    /\ [](/\ Cardinality(listeners.pointermove) <= 1
          /\ Cardinality(listeners.pointerup) <= 1)
    /\ [][IsPointerUp => listeners' = NoListeners]_vars
    /\ [][(mounted /\ ~mounted') =>
            (listeners' = NoListeners /\ buckets' = buckets)]_vars
    /\ [][~mounted => (listeners' = NoListeners /\ buckets' = buckets)]_vars

\* The component was unmounted during a second drag, after a first drag
\* placed a letter, and no handler is subscribed.
C24_Witness ==
    /\ ~mounted
    /\ draggedId # NoId
    /\ \E i \in 1..Len(letters) : letters[i].isDragging
    /\ \E i \in 1..Len(buckets) : buckets[i] # NULL
    /\ listeners = NoListeners

-----------------------------------------------------------------------------
(* C25 *)

\* C25: a resize keeps the number and the order of the live letters and
\* the id, character, speed and drag flag of each; it puts each letter at
\* x * newWidth / oldWidth and y * newHeight / oldHeight (to the nearest
\* pixel), the widths and heights being those of the play area before and
\* after the step; buckets, score, status, the round's word set, the drag
\* and the id counter are unchanged.
C25_ResizeMovesOnlyPositions ==
    [][(\E win \in FallWindows : updateSize(win)) =>
        /\ Len(letters') = Len(letters)
        /\ \A i \in 1..Len(letters) :
             LET old == letters[i]
                 new == letters'[i]
             IN /\ new.id = old.id
                /\ new.char = old.char
                /\ new.speed = old.speed
                /\ new.isDragging = old.isDragging
                /\ new.x = Round(old.x * gameSize'.width, gameSize.width)
                /\ new.y = Round(old.y * gameSize'.height, gameSize.height)
        /\ buckets' = buckets
        /\ score' = score
        /\ status' = status
        /\ wordSet' = wordSet
        /\ draggedId' = draggedId
        /\ nextId' = nextId
      ]_vars

\* Two letters are live in the small play area at positions that only a
\* resize from the large one produces: letter 1 fell one tick and is being
\* dragged, letter 2 was spawned at x = 108 just before the resize.
C25_Witness ==
    /\ gameSize = [width |-> 368, height |-> 520]
    /\ Len(letters) = 2
    /\ letters[1].isDragging
    /\ letters[2].x = Round(108 * 368, 480)
    /\ letters[2].y = Round(-LETTER_SIZE * 520, 640)
    /\ ~letters[2].isDragging

-----------------------------------------------------------------------------
(* C26 *)

AppFull(a) == \A i \in 1..Len(a.buckets) : a.buckets[i] # NULL

AppTimeoutFires == Len(app'.timeouts) < Len(app.timeouts)

\* C26: in the App variant, the step that fills the third slot adds 10 to
\* the score when the slots spell the target word and leaves the score as
\* it is otherwise; when the timeout of a full board fires, a board that
\* differs from the target word has only its slots emptied (target word,
\* live letters and score stay), and a board that spells the target word
\* has its slots emptied, its letters cleared and its target word drawn
\* again.
C26_WrongBoardResetsOnlyBuckets ==
    /\ [][(~AppFull(app) /\ AppFull(app')) =>
            /\ app'.targetWord = app.targetWord
            /\ app'.score = IF app'.buckets = app.targetWord
                            THEN app.score + 10 ELSE app.score
            /\ Len(app'.timeouts) = Len(app.timeouts) + 1]_vars
    /\ [][(AppTimeoutFires /\ AppFull(app) /\ Len(app.timeouts) = 1) =>
            /\ app'.buckets = App_EmptyBuckets
            /\ app'.score = app.score
            /\ IF app.buckets = app.targetWord
               THEN /\ app'.letters = <<>>
                    /\ \E r \in AppWordDraws : app'.targetWord = pickWord(r)
               ELSE /\ app'.letters = app.letters
                    /\ app'.targetWord = app.targetWord]_vars

\* The three slots hold a combination that is not the target word, the
\* score is still 0, the timeout is pending and a letter is live.
C26_Witness ==
    /\ AppFull(app)
    /\ app.buckets # app.targetWord
    /\ app.score = 0
    /\ app.status = "Not quite! Try again."
    /\ Len(app.timeouts) = 1
    /\ app.letters # <<>>

-----------------------------------------------------------------------------
(* C27 *)

AllFilled(bs) == \A i \in 1..Len(bs) : bs[i] # NULL

\* C27: whatever word set of the catalog is active, a board with every
\* slot filled spells a word of the set and has the timeout of its
\* completion pending, and it is followed by a board with every slot empty.
C27_FullBoardIsCompleteAndEnds ==
    /\ [](AllFilled(buckets) => (isWordComplete(buckets, wordSet) /\ timers > 0))
    /\ (AllFilled(buckets) ~> AllEmpty(buckets))

\* A full board of the last set of the catalog, spelling its last word.
C27_Witness ==
    /\ wordSet = WORD_SETS[Len(WORD_SETS)]
    /\ buckets = wordSet.words[3]
    /\ timers = 1

-----------------------------------------------------------------------------
(* C28 *)

\* This step is the timeout of a completion starting a new round.
TimeoutStartsRound == mounted /\ timers' < timers

\* C28: the timeout of a completion starts a new round only for the round
\* that was completed: when it fires, the buckets still spell a word of the
\* active set; a round that a manual reset started in the meantime, with
\* empty or partly filled buckets, is not reset by it.
C28_TimeoutResetsOnlyCompletedRound ==
    [][TimeoutStartsRound => isWordComplete(buckets, wordSet)]_vars

-----------------------------------------------------------------------------
(* C29 *)

\* The day whose start ends the period named in a key the update loop
\* resolved: the key of the calendar at the start of the clock names the
\* periods that end with 2024-03-31, any other key the periods of `cal`.
NamedPeriodEndDay(period, key) ==
    IF key = CalendarKey(period, ServerStartCal)
    THEN ServerStartClock.day + 1
    ELSE BoundaryDay(period, cal)

\* Seconds from the start of ServerStartClock's day.
SecondsAt(day, ms) == (day - ServerStartClock.day) * 86400 + ms \div 1000

\* C29: when the update loop computes the expiry of a daily, weekly or
\* monthly key, the expiry, counted from the clock of that step, ends at
\* most 60 seconds after the end of the period the key names.
C29_ExpiryWithinNamedPeriod ==
    [][\A r \in 1..MaxReqs :
        (reqs[r].pc = "zAdd" /\ reqs'[r].pc = "expire") =>
            SecondsAt(clock.day, clock.ms) + reqs'[r].expireSeconds
                <= SecondsAt(NamedPeriodEndDay(Head(reqs[r].periods),
                                               reqs[r].leaderboardKey), 0) + 60
      ]_vars

-----------------------------------------------------------------------------
(* C30 *)

\* This step answers the POST /api/leaderboard of slot r with status 400.
PostAnswered400(r) ==
    /\ reqs[r].pc # "done"
    /\ reqs'[r].pc = "done"
    /\ reqs'[r].kind = "lbPost"
    /\ reqs'[r].response.status = 400

\* C30: when a POST /api/leaderboard is answered with status 400, with no
\* other request handled in the meantime, the sorted sets are the ones the
\* request found when it arrived, and every daily, weekly or monthly key
\* that holds an entry has an expiry.
C30_FailedPostChangesNothing ==
    [][\A r \in 1..MaxReqs :
        PostAnswered400(r) =>
            /\ zsets' = reqs'[r].before
            /\ \A key \in DOMAIN zsets' :
                    key # <<"leaderboard:overall">> => key \in DOMAIN ttl'
      ]_vars

-----------------------------------------------------------------------------
(* C31 *)

\* C31: in every state a live letter is flagged dragging exactly when its
\* id is draggedId, and a draggedId that is set names a live letter.
C31_DragBookkeepingConsistent ==
    /\ \A i \in 1..Len(letters) :
            letters[i].isDragging <=> (letters[i].id = draggedId)
    /\ draggedId # NoId => FindLetter(letters, draggedId) # 0

=============================================================================
